---------------------------- MODULE Spec2Model ----------------------------
(***************************************************************************)
(* Model of the leverage back-testing engine of erobpen/IAA:               *)
(*   - margin.calculate_margin_strategy : the margin-account day loop      *)
(*   - analyzer.get_strategy_data       : regime, returns and compounding  *)
(*   - analyzer.analyze_strategy_filtered : re-compounding over a window   *)
(*                                                                         *)
(* Python floats are modelled in fixed point.  Money is counted in units   *)
(* of 1/MoneyScale dollar, daily returns in units of 1/RetScale, the       *)
(* inflation factor in units of 1/RateScale, interest rates in tenths of   *)
(* a percent.  Every product followed by a division is computed exactly    *)
(* and rounded down (MulDiv).                                              *)
(***************************************************************************)
EXTENDS Integers, Sequences, FiniteSets, TLC

(***************************************************************************)
(* Bounds of the exploration.                                              *)
(***************************************************************************)
MaxDays == 4          \* rows of the data frame given to the margin loop
MaxYears == 2         \* calendar-year changes inside the data frame
ScenarioDays == 12    \* rows of the longest steady run
MaxRows == 3          \* rows of the price history loaded by get_strategy_data
SMA_WINDOW == 2       \* rolling window of the moving average (200 in analyzer.py:122)
MaxObs == 3           \* monthly rows of the market statistics table
MaxRates == 3         \* rows of the stored Fed Funds series
RerunDays == 3        \* rows of the frame given twice to calculate_margin_strategy

(***************************************************************************)
(* Units.                                                                  *)
(***************************************************************************)
MoneyScale == 100 * 100            \* money units per dollar
RetScale == 25200 * 10000          \* return units per 1.0 (100 %)
RateScale == 1000 * 1000           \* inflation-rate units per 1.0

(***************************************************************************)
(* Input alphabets of the margin loop (columns of the merged data frame).  *)
(***************************************************************************)
YieldSet == {0, 50}                \* Long_Yield, tenths of a percent
SteadyYield == 50                  \* Long_Yield of the steady run: 5 %
CpiSet == {100, 110}               \* CPI index values
RerunReturnSet == {(0 - 4) * (RetScale \div 10), RetScale \div 10}
                                   \* Total_Return_Daily of a frame run twice
\* Long_Yield of the frames whose interest opens a cash hole: at StressYield
\* the interest of one day is twice the debt, which stands for the years of
\* accrual at an ordinary rate that it takes to owe more than the limit
StressYield == 2 * (1000 * 365) - 15
StressYieldSet == {0, StressYield}
TotalReturnSet == {(0 - 4) * (RetScale \div 10), (0 - 1) * (RetScale \div 10),
                   RetScale \div 10}      \* Total_Return_Daily: -40%, -10%, +10%

(***************************************************************************)
(* Input alphabets of get_strategy_data (stored price and rate history).   *)
(***************************************************************************)
CloseSet == {60, 99, 100, 101}     \* Close of ^GSPC
FedFundsSet == {0, 2}              \* Rate of a stored Fed Funds row, percent
FirstPriceDate == 3                \* date of the first stored price row

\* the missing value of pandas / numpy, outside the range of every column
NaN == 0 - 1000000000
\* the float inf that a division of a positive number by 0.0 gives in pandas
Inf == 1000000000
\* Close of a stored price row as database.py can hold it: a close, 0.0
\* (save_stock_data's default for a missing value) or NULL
RawCloseSet == {NaN, 0, 100, 101}

(***************************************************************************)
(* Input alphabets of the rotation and dividend variants: the monthly      *)
(* tables of small_cap.py and dividend_module.py at the month of the price *)
(* rows (NaN: the month is missing from the table).                        *)
(***************************************************************************)
VariantCloseSet == {60, 100, 101}  \* Close of ^GSPC in the variants' history
SmallValueSet == {NaN, 0 - RetScale, 21 * (RetScale \div 100)}
                                   \* Small_Value_Ret: missing, -100 %, +21 %
DividendYieldSet == {NaN, 252}     \* 'Dividend Yield', hundredths of a percent

(***************************************************************************)
(* Input alphabet of interest_rate.py: 'Long Interest Rate' of a stored     *)
(* monthly row, thousandths of a percent (NaN: the column is empty in that  *)
(* row); every value is an exact binary fraction of a percent.             *)
(***************************************************************************)
LongRateSet == {NaN, 2000, 2125, 3000, 4000}

(***************************************************************************)
(* Arithmetic helpers.                                                     *)
(***************************************************************************)
Max(a, b) == IF a >= b THEN a ELSE b

\* <<q, r>> with a * b = q * d + r and 0 <= r < d, for a, b >= 0, d > 0,
\* computed one or two bits of b at a time, without ever forming the product
\* a * b: (2 * k - 1) * d stays below 2^31 for the step k chosen.
RECURSIVE MulDivQR(_, _, _)
MulDivQR(a, b, d) ==
  IF b = 0 THEN <<0, 0>>
  ELSE LET k  == IF d <= 300000000 THEN 4 ELSE 2
           h  == MulDivQR(a, b \div k, d)
           rk == k * h[2] + (b % k) * (a % d)
           qk == k * h[1] + (b % k) * (a \div d)
       IN  <<qk + (rk \div d), rk % d>>

\* floor(a * b / d)
MulDiv(a, b, d) ==
  IF a = 0 \/ b = 0 THEN 0
  ELSE IF b < 0 THEN MulDivQR(0 - a, 0 - b, d)[1]
  ELSE MulDivQR(a, b, d)[1]

(***************************************************************************)
(* margin.py : parameters and per-day formulas.                            *)
(***************************************************************************)
base_limit == 2000 * MoneyScale        \* margin.py:87
margin_add == 15                       \* margin.py:88, 0.015 = 1.5 % in tenths of a percent
DAYS_PER_YEAR == 365                   \* margin.py:180

\* margin.py:117  (df['Total_Return_Daily'] * 3).clip(lower=-1.0)
leveraged_daily_ret(tr) == Max(3 * tr, 0 - RetScale)

\* margin.py:157-160  inflation over the closed year, RateScale units
InflationRate(year_end_cpi, start_cpi) ==
  IF start_cpi > 0 THEN MulDiv(year_end_cpi, RateScale, start_cpi) - RateScale
  ELSE 0

\* margin.py:163  margin_limit * (1 + inflation_rate)
ScaledLimit(limit, inflation_rate) ==
  MulDiv(limit, RateScale + inflation_rate, RateScale)

\* margin.py:179  (yields[i] + margin_add * 100) / 100, in tenths of a percent
DailyRateAnnual(yield) == yield + margin_add

\* margin.py:180  debt * (daily_rate_annual / 365)
DailyInterestCost(d, rate) == MulDiv(d, rate, 1000 * DAYS_PER_YEAR)

\* margin.py:230  invested_value * (1 + pct_change)
ApplyReturn(invested, pct_change) == MulDiv(invested, RetScale + pct_change, RetScale)

\* margin.py:277  (cash + invested_value) - debt
Equity(c, inv, d) == (c + inv) - d

\* the phases with the transition placed before the accrual
NextPhase_TradeFirst(p) ==
  CASE p = "year"   -> "trade"
    [] p = "trade"  -> "accrue"
    [] p = "accrue" -> "record"
    [] p = "record" -> "year"

\* the order of the four phases of one loop iteration, margin.py:140-282
NextPhase(p) ==
  CASE p = "year"   -> "accrue"
    [] p = "accrue" -> "trade"
    [] p = "trade"  -> "record"
    [] p = "record" -> "year"

(***************************************************************************)
(* analyzer.py : column formulas of get_strategy_data.                     *)
(* A column is a sequence indexed 1..n (row 1 is the first day).           *)
(***************************************************************************)
initial_capital == 10000 * MoneyScale                  \* analyzer.py:165, 279
ETF_EXPENSE_RATIO_ANNUAL == RetScale \div 100           \* analyzer.py:161, 0.01
ETF_EXPENSE_RATIO_DAILY == ETF_EXPENSE_RATIO_ANNUAL \div 252   \* analyzer.py:162

RECURSIVE SumRange(_, _, _)
SumRange(col, a, b) == IF a > b THEN 0 ELSE col[b] + SumRange(col, a, b - 1)

\* analyzer.py:122  Close.rolling(window).mean(); the column holds the window
\* sum, that is SMA_WINDOW times the mean, so that comparisons are exact
RollingMean(col) ==
  [t \in 1..Len(col) |->
     IF t < SMA_WINDOW THEN NaN ELSE SumRange(col, t - SMA_WINDOW + 1, t)]

\* analyzer.py:124  np.where(Close > SMA_200, 1, 0); a NaN compares false
RegimeOfDay(close, sma) ==
  [t \in 1..Len(close) |->
     IF sma[t] # NaN /\ SMA_WINDOW * close[t] > sma[t] THEN 1 ELSE 0]

\* the regime column used unshifted
Shift1_None(col) == col

\* analyzer.py:126  Series.shift(1)
Shift1(col) == [t \in 1..Len(col) |-> IF t = 1 THEN NaN ELSE col[t - 1]]

\* Series.fillna(v) on one value
FillNa(x, v) == IF x = NaN THEN v ELSE x

\* one element of Series.pct_change(): cur / prev - 1 in float arithmetic,
\* where x / 0.0 is inf for x > 0 and 0.0 / 0.0 is NaN
RawChange(prev, cur) ==
  IF prev = NaN \/ cur = NaN THEN NaN
  ELSE IF prev = 0 THEN (IF cur = 0 THEN NaN ELSE Inf)
  ELSE MulDiv(cur, RetScale, prev) - RetScale

\* analyzer.py:129-130  Close.pct_change().fillna(0): the first element of
\* pct_change is NaN, and fillna replaces NaN only
PctChange(close) ==
  [t \in 1..Len(close) |->
     IF t = 1 THEN 0 ELSE FillNa(RawChange(close[t - 1], close[t]), 0)]

\* analyzer.py:140  the rate assumed where no Fed Funds row applies, percent
PRE_1954_RATE_ASSUMPTION == 1

\* a reindex that takes a rate only from a row of the same date
RECURSIVE ReindexFFill_SameDay(_, _, _)
ReindexFFill_SameDay(ff, d, k) ==
  IF k = 0 THEN NaN
  ELSE IF ff[k][1] = d THEN ff[k][2] ELSE ReindexFFill_SameDay(ff, d, k - 1)

\* analyzer.py:146  ff_data['Rate'].reindex(index, method='ffill') at date d:
\* the Rate of the last of the rows 1..k dated at or before d, NaN if there
\* is none (the stored rows are ordered by date, database.py:320)
RECURSIVE ReindexFFill(_, _, _)
ReindexFFill(ff, d, k) ==
  IF k = 0 THEN NaN
  ELSE IF ff[k][1] <= d THEN ff[k][2] ELSE ReindexFFill(ff, d, k - 1)

\* analyzer.py:144-152  data['Fed_Funds_Rate']
AlignFedFunds(index, ff) ==
  IF ff # <<>>
  THEN [t \in 1..Len(index) |->
          FillNa(ReindexFFill(ff, index[t], Len(ff)), PRE_1954_RATE_ASSUMPTION)]
  ELSE [t \in 1..Len(index) |-> PRE_1954_RATE_ASSUMPTION]

\* analyzer.py:156  2 * (Fed_Funds_Rate / 100) / 252
FinancingRateDaily(rate) == (2 * (rate * (RetScale \div 100))) \div 252

\* the always-on leveraged return with no financing and no expense charged
Lev3xReturn_NoCost(tr, fin) == Max(3 * tr, 0 - RetScale)

\* analyzer.py:173-178 and 184, 187
\* (3 * Total_Return_Daily - Financing_Rate_Daily - ETF_EXPENSE_RATIO_DAILY).clip(-1)
Lev3xReturn(tr, fin) == Max(3 * tr - fin - ETF_EXPENSE_RATIO_DAILY, 0 - RetScale)

\* analyzer.py:182-187  np.where(Regime == 1, leveraged return, 0).clip(-1)
Strategy3xReturn(regime, tr, fin) ==
  Max(IF regime = 1 THEN 3 * tr - fin - ETF_EXPENSE_RATIO_DAILY ELSE 0, 0 - RetScale)

\* additive compounding: initial_capital * (1 + r.cumsum()), row t
CumProd_Additive(r, t) ==
  MulDiv(initial_capital, RetScale + SumRange(r, 1, t), RetScale)

\* analyzer.py:169, 179, 188, 282-284  initial_capital * (1 + r).cumprod(), row t
RECURSIVE CumProd(_, _)
CumProd(r, t) ==
  IF t = 0 THEN initial_capital
  ELSE MulDiv(CumProd(r, t - 1), RetScale + r[t], RetScale)

Growth(r) == [t \in 1..Len(r) |-> CumProd(r, t)]

\* a window whose first day carries no return
Window_FirstFlat(col, s, e) ==
  [k \in 1..(e - s + 1) |-> IF k = 1 THEN 0 ELSE col[s + k - 1]]

\* a window that is never rejected for being a single row
TooFewRows_OnlyEmpty(n) == n = 0

\* analyzer.py:276, lsc.py:170, lscda.py:192, interest_rate.py:77
\* window.empty or len(window) < 2
TooFewRows(n) == n = 0 \/ n < 2

\* analyzer.py:273-274  data.loc[mask]: rows s..e of a column
Window(col, s, e) == [k \in 1..(e - s + 1) |-> col[s + k - 1]]

\* margin.py:67-68  fillna(method='ffill') then fillna(method='bfill')
RECURSIVE FFillAt(_, _)
FFillAt(col, t) ==
  IF col[t] # NaN THEN col[t]
  ELSE IF t = 1 THEN NaN ELSE FFillAt(col, t - 1)

RECURSIVE BFillAt(_, _)
BFillAt(col, t) ==
  IF col[t] # NaN THEN col[t]
  ELSE IF t = Len(col) THEN NaN ELSE BFillAt(col, t + 1)

FillBothWays(col) ==
  LET f == [t \in 1..Len(col) |-> FFillAt(col, t)]
  IN  [t \in 1..Len(col) |-> BFillAt(f, t)]

(***************************************************************************)
(* interest_rate.py : the long interest rate and the estimated margin rate *)
(***************************************************************************)
\* interest_rate.py:25, 71  MARGIN_SPREAD = 1.5, thousandths of a percent
MARGIN_SPREAD == 1500

\* the rows kept as stored, missing rates included
DropNa_KeepAll(rows) == rows

\* interest_rate.py:19  df[['Long Interest Rate']].dropna() on rows <<date, rate>>
DropNa(rows) == SelectSeq(rows, LAMBDA r : r[2] # NaN)

\* interest_rate.py:26  the frame with its 'Margin Rate' column
WithMarginRate(rows) ==
  [k \in 1..Len(rows) |->
     [date |-> rows[k][1], rate |-> rows[k][2], margin |-> rows[k][2] + MARGIN_SPREAD]]

\* interest_rate.py:42  sort_index(ascending=False) of a frame sorted by date
Reverse(rows) == [k \in 1..Len(rows) |-> rows[Len(rows) + 1 - k]]

\* interest_rate.py:52-53  f"{x:.2f}": thousandths rounded to hundredths, a
\* tie going to the even hundredth
Fmt2(x) ==
  LET q == x \div 10
      r == x % 10
  IN  IF r > 5 \/ (r = 5 /\ q % 2 = 1) THEN q + 1 ELSE q

\* interest_rate.py:49-54  one row of table_data
TableRow(row) ==
  [date |-> row.date, rate |-> Fmt2(row.rate), margin_rate |-> Fmt2(row.margin)]

\* interest_rate.py:74-75  the rows dated inside [s, e]
DateWindow(rows, s, e) == SelectSeq(rows, LAMBDA r : s <= r.date /\ r.date <= e)

(***************************************************************************)
(* lsc.py, lscda.py, lda.py : column formulas of the variants.             *)
(***************************************************************************)
\* x ** n for x in units of 1/RetScale
RECURSIVE PowFix(_, _)
PowFix(x, n) == IF n = 0 THEN RetScale ELSE MulDiv(PowFix(x, n - 1), x, RetScale)

\* the n-th root of x > 0 by Newton's iteration from above:
\* y <- ((n - 1) * y + x / y ** (n - 1)) / n until y stops decreasing
RECURSIVE RootFrom(_, _, _)
RootFrom(x, n, y) ==
  LET z == ((n - 1) * y + MulDiv(x, RetScale, PowFix(y, n - 1))) \div n
  IN  IF z >= y THEN y ELSE RootFrom(x, n, z)

\* x ** (1 / n) for x >= 0 in units of 1/RetScale
Root(x, n) == IF x = 0 THEN 0 ELSE RootFrom(x, n, Max(x, RetScale))

\* lsc.py:59, lscda.py:56  (1 + Small_Value_Ret) ** (1 / TradingDays) - 1
DailyEquivalent(m, td) == Root(RetScale + m, td) - RetScale

\* lscda.py:62, lda.py:50  'Dividend Yield' / 100 / 252
DivDailyYield(dy) == (dy * (RetScale \div 10000)) \div 252

\* the annual expense ratio charged every day
LSC_EXPENSE_RATIO_DAILY_Annual == RetScale \div 100

\* lsc.py:65, 160  ETF_EXPENSE_RATIO_DAILY = 0.01 / 252
LSC_EXPENSE_RATIO_DAILY == (RetScale \div 100) \div 252

\* lscda.py:72, 179 and lda.py:53  ETF_EXPENSE_RATIO_DAILY = 0.01 / 252
DIV_EXPENSE_RATIO_DAILY == (RetScale \div 100) \div 252

lev_ret_Unclipped(tr, fin) == tr * 3 - fin - LSC_EXPENSE_RATIO_DAILY

\* lsc.py:66-70, 161-163
\* (Total_Return_Daily * 3 - Financing_Rate_Daily - ETF_EXPENSE_RATIO_DAILY).clip(-1)
lev_ret(tr, fin) == Max(tr * 3 - fin - LSC_EXPENSE_RATIO_DAILY, 0 - RetScale)

\* lscda.py:75-80, 180-183 and lda.py:65-70
\* (3 * Simple_Ref + Div_Daily_Yield - Financing_Rate_Daily
\*    - ETF_EXPENSE_RATIO_DAILY).clip(-1)
Lev3xDivDaily(sr, dv, fin) ==
  Max(3 * sr + dv - fin - DIV_EXPENSE_RATIO_DAILY, 0 - RetScale)

\* np.where(Regime == 1, a, b) on one row; a NaN regime selects b
WhereRegime(regime, a, b) == IF regime = 1 THEN a ELSE b

(***************************************************************************)
(* State of calculate_margin_strategy.  The input columns of df (dates,    *)
(* CPI, Long_Yield, Regime) are revealed row by row, as the loop reads     *)
(* them; row k of a column is the k-th day (the code's index k - 1).       *)
(***************************************************************************)
VARIABLES
  pc,                          \* position in calculate_margin_strategy
  i,                           \* loop index: rows completely processed
  years,                       \* dates[].year, as offsets from the first row's year
  cpis, yields, regimes,       \* df['CPI'], df['Long_Yield'], df['Regime']
  cash, debt, invested_value,  \* the ledger
  margin_limit,
  current_year,
  year_start_cpi,
  accrued_interest_cumulative,
  daily_interest_cost,         \* local of the accrual step
  in_market,
  equity_curve, debt_curve, cash_curve, invested_curve,
  df                           \* the frame as returned: input and Margin_* columns

frame == <<years, cpis, yields, regimes>>
curves == <<equity_curve, debt_curve, cash_curve, invested_curve>>

margin_vars == <<pc, i, frame, cash, debt, invested_value, margin_limit,
                 current_year, year_start_cpi, accrued_interest_cumulative,
                 daily_interest_cost, in_market, curves, df>>

(***************************************************************************)
(* State of the analyzer pipeline: the data frame of get_strategy_data,    *)
(* the window of analyze_strategy_filtered and the frame of                *)
(* margin.get_merged_data.                                                 *)
(***************************************************************************)
VARIABLES
  spc,                         \* position in the analyzer pipeline
  Close, Date,                 \* stored price history and its index (inputs)
  ff_data,                     \* stored Fed Funds series: rows <<date, Rate>> (input)
  Fed_Funds_Rate,
  SMA_200, Regime,
  Simple_Ref, Total_Return_Daily, Financing_Rate_Daily,
  Strategy_1x_Daily, Buy_Hold_Growth,
  Strategy_3x_BH_Daily, Lev_3x_BH_Growth,
  Strategy_3x_Daily, Lev_3x_Growth,
  window_start, window_end,    \* first and last row of the requested window
  BH_Filtered, BH_3x_Filtered, Strat_3x_Filtered,
  filtered_result,             \* "none" (None returned) or "plot"
  df_Regime, lev_returns       \* merged frame: regimes and lev_returns of margin.py

inputs == <<Close, Date, ff_data>>
derived == <<Fed_Funds_Rate, SMA_200, Regime, Simple_Ref, Total_Return_Daily,
             Financing_Rate_Daily, Strategy_1x_Daily, Buy_Hold_Growth,
             Strategy_3x_BH_Daily, Lev_3x_BH_Growth, Strategy_3x_Daily, Lev_3x_Growth>>
filtered == <<window_start, window_end, BH_Filtered, BH_3x_Filtered,
              Strat_3x_Filtered, filtered_result>>
merged == <<df_Regime, lev_returns>>

(***************************************************************************)
(* State of the other views: analyze_strategy, the rotation and dividend   *)
(* variants (lsc.py, lscda.py, lda.py) and interest_rate.py.  The frame    *)
(* each variant builds is a record of its columns.                         *)
(***************************************************************************)
VARIABLES
  strategy_result,             \* analyze_strategy: "none", "plot" or "error"
  sc_data,                     \* Small_Value_Ret of the month of the price rows
  div_data,                    \* 'Dividend Yield' (percent) of that month
  lsc_frame,                   \* columns of the merged frame of lsc.py
  lscda_frame,                 \* columns of the merged frame of lscda.py
  lda_frame,                   \* columns of the merged frame of lda.py
  view_result,                 \* what the variant returned: "none" or "plot"
  market_stats,                \* 'Long Interest Rate' of each stored monthly row
  df_ir,                       \* interest_rate.py: rows <<date, rate, margin rate>>
  table_data,                  \* interest_rate.py: the table returned
  ir_result,                   \* interest_rate.py: "none" or "plot"
  start_date, end_date,        \* analyze_interest_rate_filtered: the range asked for
  ir_window                    \* analyze_interest_rate_filtered: the rows selected

variant_vars == <<sc_data, div_data, lsc_frame, lscda_frame, lda_frame, view_result>>
interest_vars ==
  <<market_stats, df_ir, table_data, ir_result, start_date, end_date, ir_window>>
views == <<strategy_result, variant_vars, interest_vars>>

strategy_vars == <<spc, inputs, derived, filtered, merged, views>>

(***************************************************************************)
(* State of data_cache.py and of the requests that use it.  Every thread   *)
(* runs one call of data_cache at a time; a thread serving a dashboard     *)
(* request is also somewhere in dashboard().                               *)
(***************************************************************************)
VARIABLES
  _cache,                      \* data_cache._cache: key -> <<value, expiry>>
  _lock,                       \* the thread holding data_cache._lock (0: free)
  now,                         \* time.monotonic(), seconds
  call,                        \* per thread: the data_cache call it is in
  cpc,                         \* per thread: position in that call
  entry,                       \* per thread: local 'entry' of get
  ret,                         \* per thread: what its last get returned
  latest,                      \* history: key -> the entry written by the latest
                               \* set of the key that no clear has followed
  rpc,                         \* per thread: position in dashboard()
  analyses,                    \* per thread: analyses of the request finished
  used,                        \* per thread: the strategy-data values they used
  computed,                    \* per thread: computations of strategy data made
  next_value                   \* the value the next computation will produce

cache_vars == <<_cache, _lock, now, call, cpc, entry, ret, latest>>
request_vars == <<rpc, analyses, used, computed, next_value>>
service_vars == <<cache_vars, request_vars>>

vars == <<margin_vars, strategy_vars, service_vars>>

(***************************************************************************)
(* data_cache.py and app.py : parameters.                                  *)
(***************************************************************************)
NumThreads == 2                    \* threads serving requests
MaxTicks == 2                      \* advances of the monotonic clock
Threads == 1..NumThreads
Tick == 150                        \* seconds of one advance of the clock
_DEFAULT_TTL == 300                \* data_cache.py:11
Keys == {"strategy_data"}          \* analyzer.py:74, 190
CacheValues == {1, 2}              \* values handed to set
TtlSet == {Tick, _DEFAULT_TTL}     \* ttl handed to set
None == 0                          \* what get returns for a miss
NoEntry == <<>>                    \* dict.get(key) of a key that is not there
NoCall == [op |-> "none", key |-> "strategy_data", value |-> None, ttl |-> 0]
Analyses == 5                      \* analyses of dashboard() that read strategy data

Init ==
  /\ pc = "start"
  /\ i = 0
  /\ years = <<>> /\ cpis = <<>> /\ yields = <<>> /\ regimes = <<>>
  /\ cash = 0 /\ debt = 0 /\ invested_value = 0
  /\ margin_limit = 0
  /\ current_year = 0
  /\ year_start_cpi = 0
  /\ accrued_interest_cumulative = 0
  /\ daily_interest_cost = 0
  /\ in_market = FALSE
  /\ equity_curve = <<>> /\ debt_curve = <<>>
  /\ cash_curve = <<>> /\ invested_curve = <<>>
  /\ df = <<>>
  /\ spc = "load"
  /\ Close = <<>> /\ Date = <<>> /\ ff_data = <<>>
  /\ Fed_Funds_Rate = <<>>
  /\ SMA_200 = <<>> /\ Regime = <<>>
  /\ Simple_Ref = <<>> /\ Total_Return_Daily = <<>> /\ Financing_Rate_Daily = <<>>
  /\ Strategy_1x_Daily = <<>> /\ Buy_Hold_Growth = <<>>
  /\ Strategy_3x_BH_Daily = <<>> /\ Lev_3x_BH_Growth = <<>>
  /\ Strategy_3x_Daily = <<>> /\ Lev_3x_Growth = <<>>
  /\ window_start = 0 /\ window_end = 0
  /\ BH_Filtered = <<>> /\ BH_3x_Filtered = <<>> /\ Strat_3x_Filtered = <<>>
  /\ filtered_result = "none"
  /\ df_Regime = <<>> /\ lev_returns = <<>>
  /\ strategy_result = "none"
  /\ sc_data = NaN /\ div_data = NaN
  /\ lsc_frame = <<>> /\ lscda_frame = <<>> /\ lda_frame = <<>>
  /\ view_result = "none"
  /\ market_stats = <<>> /\ df_ir = <<>> /\ table_data = <<>>
  /\ ir_result = "none"
  /\ start_date = 0 /\ end_date = 0 /\ ir_window = <<>>
  /\ _cache = [k \in Keys |-> NoEntry]
  /\ _lock = 0
  /\ now = 0
  /\ call = [th \in Threads |-> NoCall]
  /\ cpc = [th \in Threads |-> "idle"]
  /\ entry = [th \in Threads |-> NoEntry]
  /\ ret = [th \in Threads |-> None]
  /\ latest = [k \in Keys |-> NoEntry]
  /\ rpc = [th \in Threads |-> "idle"]
  /\ analyses = [th \in Threads |-> 0]
  /\ used = [th \in Threads |-> {}]
  /\ computed = [th \in Threads |-> 0]
  /\ next_value = 1

(***************************************************************************)
(* Exploration of the margin loop.  Every input is explored over the first *)
(* MaxDays rows; longer frames, up to ScenarioDays rows, are explored only *)
(* along the steady run: position opened on the first row and held, with   *)
(* Long_Yield at SteadyYield and CPI constant on every row, and no price   *)
(* move on the added rows.                                                 *)
(***************************************************************************)
Last(col) == col[Len(col)]

SteadySoFar ==
  /\ \A k \in 1..Len(regimes) : regimes[k] = 1
  /\ \A k \in 1..Len(yields) : yields[k] = SteadyYield
  /\ \A k \in 1..Len(cpis) : cpis[k] = cpis[1]

MoreRows == i < MaxDays \/ (i < ScenarioDays /\ SteadySoFar)

CpiChoices == IF i < MaxDays /\ spc # "ledger" THEN CpiSet ELSE {cpis[1]}
YieldChoices ==
  IF spc = "ledger" THEN StressYieldSet
  ELSE IF i < MaxDays THEN YieldSet ELSE {SteadyYield}
\* the Total_Return_Daily of row i + 1: the column of get_merged_data when
\* the frame comes from it, any return otherwise
ReturnChoices ==
  IF spc \in {"merged", "ledger"} THEN {Total_Return_Daily[i + 1]}
  ELSE IF i < MaxDays THEN TotalReturnSet ELSE {0}

(***************************************************************************)
(* margin.calculate_margin_strategy.                                       *)
(***************************************************************************)

\* margin.py:83-84  empty data frame: returned unchanged
ReturnEmpty ==
  /\ pc = "start"
  /\ pc' = "done"
  /\ UNCHANGED <<i, frame, cash, debt, invested_value, margin_limit, current_year,
                 year_start_cpi, accrued_interest_cumulative, daily_interest_cost,
                 in_market, curves>>
  /\ UNCHANGED <<df, strategy_vars, service_vars>>

\* Setup, with the ledger and the position flag kept from an earlier call
Setup_KeepsLedger ==
  /\ pc = "start"
  /\ \E c0 \in CpiSet :
       /\ cpis' = <<c0>>
       /\ year_start_cpi' = c0
  /\ years' = <<0>>
  /\ yields' = <<>> /\ regimes' = <<>>
  /\ current_year' = 0
  /\ margin_limit' = base_limit
  /\ accrued_interest_cumulative' = 0
  /\ equity_curve' = <<>> /\ debt_curve' = <<>>
  /\ cash_curve' = <<>> /\ invested_curve' = <<>>
  /\ i' = 0
  /\ pc' = "year"
  /\ UNCHANGED <<cash, debt, invested_value, in_market, daily_interest_cost>>
  /\ UNCHANGED <<df, strategy_vars, service_vars>>

\* margin.py:86-138  parameters and initial simulation state: every local,
\* the result arrays and the loop index start afresh; the first row's date
\* and CPI are read here
Setup ==
  /\ pc = "start"
  /\ \E c0 \in CpiSet :
       /\ cpis' = <<c0>>
       /\ year_start_cpi' = c0
  /\ years' = <<0>>
  /\ yields' = <<>> /\ regimes' = <<>>
  /\ current_year' = 0
  /\ cash' = 0 /\ debt' = 0 /\ invested_value' = 0
  /\ margin_limit' = base_limit
  /\ accrued_interest_cumulative' = 0
  /\ equity_curve' = <<>> /\ debt_curve' = <<>>
  /\ cash_curve' = <<>> /\ invested_curve' = <<>>
  /\ in_market' = FALSE
  /\ i' = 0
  /\ pc' = "year"
  /\ UNCHANGED daily_interest_cost
  /\ UNCHANGED <<df, strategy_vars, service_vars>>

\* SameYear, re-indexing the limit on every row instead of once a year
SameYear_Rescales ==
  /\ pc = "year"
  /\ MoreRows
  /\ IF i = 0
     THEN UNCHANGED <<years, cpis, margin_limit>>
     ELSE /\ years' = Append(years, Last(years))
          /\ \E c \in CpiChoices : cpis' = Append(cpis, c)
          /\ margin_limit' =
               ScaledLimit(margin_limit, InflationRate(cpis[i], year_start_cpi))
  /\ Last(years') = current_year
  /\ pc' = NextPhase(pc)
  /\ UNCHANGED <<i, yields, regimes, cash, debt, invested_value,
                 current_year, year_start_cpi, accrued_interest_cumulative,
                 daily_interest_cost, in_market, curves>>
  /\ UNCHANGED <<df, strategy_vars, service_vars>>

\* margin.py:141-145  a row whose year equals current_year: nothing to settle
SameYear ==
  /\ pc = "year"
  /\ MoreRows
  /\ IF i = 0
     THEN UNCHANGED <<years, cpis>>
     ELSE /\ years' = Append(years, Last(years))
          /\ \E c \in CpiChoices : cpis' = Append(cpis, c)
  /\ Last(years') = current_year
  /\ pc' = NextPhase(pc)
  /\ UNCHANGED <<i, yields, regimes, cash, debt, invested_value, margin_limit,
                 current_year, year_start_cpi, accrued_interest_cumulative,
                 daily_interest_cost, in_market, curves>>
  /\ UNCHANGED <<df, strategy_vars, service_vars>>

\* YearChange, leaving the CPI anchor at the first row's CPI
YearChange_AnchorStays ==
  /\ pc = "year"
  /\ MoreRows
  /\ i > 0
  /\ Last(years) < MaxYears
  /\ years' = Append(years, Last(years) + 1)
  /\ \E c \in CpiChoices : cpis' = Append(cpis, c)
  /\ Last(years') # current_year
  /\ LET year_end_cpi == cpis[i]
         inflation_rate == InflationRate(year_end_cpi, year_start_cpi)
     IN  /\ margin_limit' = ScaledLimit(margin_limit, inflation_rate)
         /\ cash' = cash - accrued_interest_cumulative
         /\ accrued_interest_cumulative' = 0
         /\ current_year' = Last(years')
         /\ year_start_cpi' = year_start_cpi
  /\ pc' = NextPhase(pc)
  /\ UNCHANGED <<i, yields, regimes, debt, invested_value, daily_interest_cost,
                 in_market, curves>>
  /\ UNCHANGED <<df, strategy_vars, service_vars>>

\* margin.py:141-174  first row of a new calendar year: settle the closed year
YearChange ==
  /\ pc = "year"
  /\ MoreRows
  /\ i > 0
  /\ Last(years) < MaxYears
  /\ years' = Append(years, Last(years) + 1)
  /\ \E c \in CpiChoices : cpis' = Append(cpis, c)
  /\ Last(years') # current_year
  /\ LET year_end_cpi == cpis[i]
         inflation_rate == InflationRate(year_end_cpi, year_start_cpi)
     IN  /\ margin_limit' = ScaledLimit(margin_limit, inflation_rate)
         /\ cash' = cash - accrued_interest_cumulative
         /\ accrued_interest_cumulative' = 0
         /\ current_year' = Last(years')
         /\ year_start_cpi' = cpis[i]
  /\ pc' = NextPhase(pc)
  /\ UNCHANGED <<i, yields, regimes, debt, invested_value, daily_interest_cost,
                 in_market, curves>>
  /\ UNCHANGED <<df, strategy_vars, service_vars>>

\* Accrue, charging interest only while the position is open
Accrue_OnlyInMarket ==
  /\ pc = "accrue"
  /\ \E y \in YieldChoices :
       LET daily_rate_annual == DailyRateAnnual(y)
       IN  /\ yields' = Append(yields, y)
           /\ daily_interest_cost' =
                (IF in_market THEN DailyInterestCost(debt, daily_rate_annual) ELSE 0)
           /\ accrued_interest_cumulative' =
                accrued_interest_cumulative + daily_interest_cost'
  /\ pc' = NextPhase(pc)
  /\ UNCHANGED <<i, years, cpis, regimes, cash, debt, invested_value, margin_limit,
                 current_year, year_start_cpi, in_market, curves>>
  /\ UNCHANGED <<df, strategy_vars, service_vars>>

\* margin.py:176-181  daily interest accrual
Accrue ==
  /\ pc = "accrue"
  /\ \E y \in YieldChoices :
       LET daily_rate_annual == DailyRateAnnual(y)
       IN  /\ yields' = Append(yields, y)
           /\ daily_interest_cost' = DailyInterestCost(debt, daily_rate_annual)
           /\ accrued_interest_cumulative' =
                accrued_interest_cumulative + daily_interest_cost'
  /\ pc' = NextPhase(pc)
  /\ UNCHANGED <<i, years, cpis, regimes, cash, debt, invested_value, margin_limit,
                 current_year, year_start_cpi, in_market, curves>>
  /\ UNCHANGED <<df, strategy_vars, service_vars>>

\* Enter, borrowing margin_limit on top of the debt still outstanding
Enter_AddsToDebt ==
  /\ pc = "trade"
  /\ i < MaxDays
  /\ regimes' = Append(regimes, 1)
  /\ ~in_market
  /\ debt' = debt + margin_limit
  /\ LET investment_amt == cash + margin_limit
     IN  IF investment_amt < 0
         THEN /\ invested_value' = 0
              /\ cash' = cash + margin_limit
         ELSE /\ invested_value' = investment_amt
              /\ cash' = 0
  /\ in_market' = TRUE
  /\ pc' = NextPhase(pc)
  /\ UNCHANGED <<i, years, cpis, yields, margin_limit, current_year, year_start_cpi,
                 accrued_interest_cumulative, daily_interest_cost, curves>>
  /\ UNCHANGED <<df, strategy_vars, service_vars>>

\* Enter, writing off the negative balance when the investment is clamped
Enter_HoleClearsCash ==
  /\ pc = "trade"
  /\ i < MaxDays
  /\ regimes' = Append(regimes, 1)
  /\ ~in_market
  /\ debt' = margin_limit
  /\ LET investment_amt == cash + debt'
     IN  IF investment_amt < 0
         THEN /\ invested_value' = 0
              /\ cash' = 0
         ELSE /\ invested_value' = investment_amt
              /\ cash' = 0
  /\ in_market' = TRUE
  /\ pc' = NextPhase(pc)
  /\ UNCHANGED <<i, years, cpis, yields, margin_limit, current_year, year_start_cpi,
                 accrued_interest_cumulative, daily_interest_cost, curves>>
  /\ UNCHANGED <<df, strategy_vars, service_vars>>

\* Enter, applying the day's leveraged return to the amount it invests
Enter_AppliesReturn ==
  /\ pc = "trade"
  /\ i < MaxDays
  /\ regimes' = Append(regimes, 1)
  /\ ~in_market
  /\ debt' = margin_limit
  /\ LET investment_amt == cash + debt'
     IN  IF investment_amt < 0
         THEN /\ invested_value' = 0
              /\ cash' = cash + debt'
         ELSE /\ \E tr \in ReturnChoices :
                   invested_value' = ApplyReturn(investment_amt, leveraged_daily_ret(tr))
              /\ cash' = 0
  /\ in_market' = TRUE
  /\ pc' = NextPhase(pc)
  /\ UNCHANGED <<i, years, cpis, yields, margin_limit, current_year, year_start_cpi,
                 accrued_interest_cumulative, daily_interest_cost, curves>>
  /\ UNCHANGED <<df, strategy_vars, service_vars>>

\* margin.py:186-225  signal 1 while out of the market: ENTER
Enter ==
  /\ pc = "trade"
  /\ i < MaxDays
  /\ regimes' = Append(regimes, 1)
  /\ ~in_market
  /\ debt' = margin_limit
  /\ LET investment_amt == cash + debt'
     IN  IF investment_amt < 0
         THEN /\ invested_value' = 0
              /\ cash' = cash + debt'
         ELSE /\ invested_value' = investment_amt
              /\ cash' = 0
  /\ in_market' = TRUE
  /\ pc' = NextPhase(pc)
  /\ UNCHANGED <<i, years, cpis, yields, margin_limit, current_year, year_start_cpi,
                 accrued_interest_cumulative, daily_interest_cost, curves>>
  /\ UNCHANGED <<df, strategy_vars, service_vars>>

\* Hold, keeping the debt at the current margin limit
Hold_DebtTracksLimit ==
  /\ pc = "trade"
  /\ regimes' = Append(regimes, 1)
  /\ in_market
  /\ \E tr \in ReturnChoices :
       LET pct_change == leveraged_daily_ret(tr)
       IN  invested_value' = ApplyReturn(invested_value, pct_change)
  /\ debt' = margin_limit
  /\ pc' = NextPhase(pc)
  /\ UNCHANGED <<i, years, cpis, yields, cash, margin_limit, current_year,
                 year_start_cpi, accrued_interest_cumulative, daily_interest_cost,
                 in_market, curves>>
  /\ UNCHANGED <<df, strategy_vars, service_vars>>

\* margin.py:226-244  signal 1 while in the market: apply the day's return
Hold ==
  /\ pc = "trade"
  /\ regimes' = Append(regimes, 1)
  /\ in_market
  /\ \E tr \in ReturnChoices :
       LET pct_change == leveraged_daily_ret(tr)
       IN  invested_value' = ApplyReturn(invested_value, pct_change)
  /\ pc' = NextPhase(pc)
  /\ UNCHANGED <<i, years, cpis, yields, cash, debt, margin_limit, current_year,
                 year_start_cpi, accrued_interest_cumulative, daily_interest_cost,
                 in_market, curves>>
  /\ UNCHANGED <<df, strategy_vars, service_vars>>

\* Exit, adding the proceeds to the cash balance instead of replacing it
Exit_KeepsCash ==
  /\ pc = "trade"
  /\ i < MaxDays
  /\ regimes' = Append(regimes, 0)
  /\ in_market
  /\ LET proceeds == invested_value + cash
     IN  /\ invested_value' = 0
         /\ IF proceeds >= debt
            THEN /\ cash' = proceeds - debt
                 /\ debt' = 0
            ELSE /\ debt' = debt - proceeds
                 /\ cash' = 0
  /\ in_market' = FALSE
  /\ pc' = NextPhase(pc)
  /\ UNCHANGED <<i, years, cpis, yields, margin_limit, current_year, year_start_cpi,
                 accrued_interest_cumulative, daily_interest_cost, curves>>
  /\ UNCHANGED <<df, strategy_vars, service_vars>>

\* Exit, handing all proceeds to the lender whatever the debt is
Exit_AlwaysPartial ==
  /\ pc = "trade"
  /\ i < MaxDays
  /\ regimes' = Append(regimes, 0)
  /\ in_market
  /\ LET proceeds == invested_value
     IN  /\ invested_value' = 0
         /\ LET repay_amount == proceeds
            IN  debt' = debt - repay_amount
         /\ cash' = 0
  /\ in_market' = FALSE
  /\ pc' = NextPhase(pc)
  /\ UNCHANGED <<i, years, cpis, yields, margin_limit, current_year, year_start_cpi,
                 accrued_interest_cumulative, daily_interest_cost, curves>>
  /\ UNCHANGED <<df, strategy_vars, service_vars>>

\* margin.py:246-269  signal 0 while in the market: EXIT and repay
Exit ==
  /\ pc = "trade"
  /\ i < MaxDays
  /\ regimes' = Append(regimes, 0)
  /\ in_market
  /\ LET proceeds == invested_value
     IN  /\ invested_value' = 0
         /\ IF proceeds >= debt
            THEN /\ cash' = proceeds - debt
                 /\ debt' = 0
            ELSE /\ LET repay_amount == proceeds
                    IN  debt' = debt - repay_amount
                 /\ cash' = 0
  /\ in_market' = FALSE
  /\ pc' = NextPhase(pc)
  /\ UNCHANGED <<i, years, cpis, yields, margin_limit, current_year, year_start_cpi,
                 accrued_interest_cumulative, daily_interest_cost, curves>>
  /\ UNCHANGED <<df, strategy_vars, service_vars>>

\* margin.py:270-273  signal 0 while out of the market: nothing moves
StayOut ==
  /\ pc = "trade"
  /\ i < MaxDays
  /\ regimes' = Append(regimes, 0)
  /\ ~in_market
  /\ pc' = NextPhase(pc)
  /\ UNCHANGED <<i, years, cpis, yields, cash, debt, invested_value, margin_limit,
                 current_year, year_start_cpi, accrued_interest_cumulative,
                 daily_interest_cost, in_market, curves>>
  /\ UNCHANGED <<df, strategy_vars, service_vars>>

\* margin.py:275-282  the row of the day
Record ==
  /\ pc = "record"
  /\ LET current_equity == Equity(cash, invested_value, debt)
     IN  equity_curve' = Append(equity_curve, current_equity)
  /\ debt_curve' = Append(debt_curve, debt)
  /\ cash_curve' = Append(cash_curve, cash)
  /\ invested_curve' = Append(invested_curve, invested_value)
  /\ i' = i + 1
  /\ pc' = NextPhase(pc)
  /\ UNCHANGED <<frame, cash, debt, invested_value, margin_limit, current_year,
                 year_start_cpi, accrued_interest_cumulative, daily_interest_cost,
                 in_market>>
  /\ UNCHANGED <<df, strategy_vars, service_vars>>

\* margin.py:284-289  the loop is over: the curves become columns of df
Finish ==
  /\ pc = "year"
  /\ i >= 1
  /\ df' = [years |-> years, CPI |-> cpis, Long_Yield |-> yields, Regime |-> regimes,
            Margin_Equity |-> equity_curve, Margin_Debt |-> debt_curve,
            Margin_Cash |-> cash_curve, Margin_Invested |-> invested_curve]
  /\ pc' = "done"
  /\ UNCHANGED <<i, frame, cash, debt, invested_value, margin_limit, current_year,
                 year_start_cpi, accrued_interest_cumulative, daily_interest_cost,
                 in_market, curves>>
  /\ UNCHANGED <<strategy_vars, service_vars>>

(***************************************************************************)
(* Properties of the margin simulator.                                     *)
(***************************************************************************)

\* the row k of the frame is an entry day / an exit day: the position is open
\* after a row exactly when its regime is 1
OpenAfter(k) == k >= 1 /\ regimes[k] = 1
EntryDay(k) == regimes[k] = 1 /\ ~OpenAfter(k - 1)
ExitDay(k) == regimes[k] # 1 /\ OpenAfter(k - 1)

\* the debt recorded for the previous day (0 before the first day)
PrevDebt == IF i = 0 THEN 0 ELSE debt_curve[i]

\* c is d * rate / 1000 / 365 rounded down (rate in tenths of a percent)
IsInterestOf(c, d, rate) ==
  /\ c * (1000 * DAYS_PER_YEAR) <= d * rate
  /\ d * rate < (c + 1) * (1000 * DAYS_PER_YEAR)

\* the step about to be taken reads a new row's regime, equal to s
TradeStep(s) ==
  /\ pc = "trade"
  /\ Len(regimes') = Len(regimes) + 1
  /\ Last(regimes') = s

\* the step about to be taken starts a row of a new calendar year
BoundaryStep ==
  /\ pc = "year"
  /\ Len(years') = Len(years) + 1
  /\ Last(years') # Last(years)

\* C1: an entry (signal 1 while out of the market) sets debt to the current
\* margin_limit exactly and opens the position; when cash + margin_limit >= 0
\* it invests cash + margin_limit and leaves cash at 0 -- whatever debt was
\* outstanding before the entry.
C1_EntrySetsDebtToLimit ==
  [][(TradeStep(1) /\ ~in_market)
       => /\ debt' = margin_limit
          /\ margin_limit' = margin_limit
          /\ in_market'
          /\ (cash + margin_limit >= 0
                => invested_value' = cash + margin_limit /\ cash' = 0)]_vars

\* C1 witness: an entry has just been made while debt from an earlier partial
\* repayment was outstanding
C1_Witness ==
  /\ pc = "record" /\ i >= 1 /\ Len(regimes) = i + 1
  /\ EntryDay(i + 1)
  /\ debt_curve[i] > 0
  /\ in_market /\ debt = margin_limit /\ cash = 0
  /\ invested_value = cash_curve[i] + margin_limit

\* C2: an exit (signal 0 while in the market) sells everything (proceeds =
\* invested before the exit), closes the position, and either repays the debt
\* in full (cash = proceeds - old debt, debt = 0) or, when proceeds < debt,
\* repays what it can (cash = 0, debt = old debt - proceeds, recorded equity
\* = -debt).
C2_ExitStep ==
  (TradeStep(0) /\ in_market)
    => /\ invested_value' = 0
       /\ ~in_market'
       /\ IF invested_value < debt
          THEN cash' = 0 /\ debt' = debt - invested_value
          ELSE cash' = invested_value - debt /\ debt' = 0

C2_ExitRows ==
  \A k \in 2..Len(debt_curve) :
    ExitDay(k) =>
      /\ invested_curve[k] = 0
      /\ IF invested_curve[k - 1] < debt_curve[k - 1]
         THEN /\ cash_curve[k] = 0
              /\ debt_curve[k] = debt_curve[k - 1] - invested_curve[k - 1]
              /\ equity_curve[k] = 0 - debt_curve[k]
         ELSE /\ cash_curve[k] = invested_curve[k - 1] - debt_curve[k - 1]
              /\ debt_curve[k] = 0

C2_ExitRepays == [](C2_ExitRows) /\ [][C2_ExitStep]_vars

\* C2 witness: the row of an exit whose proceeds were positive but smaller
\* than the debt, made with a negative cash balance before the exit
C2_Witness ==
  /\ pc = "year" /\ i >= 2
  /\ ExitDay(i)
  /\ invested_curve[i - 1] > 0
  /\ invested_curve[i - 1] < debt_curve[i - 1]
  /\ cash_curve[i - 1] < 0
  /\ debt > 0 /\ cash = 0 /\ ~in_market

\* C3: each day runs (1) the year-boundary settlement, (2) the accrual, (3) the
\* transition, (4) the record, in this order: the settlement deducts the
\* accumulator before the day's own accrual, the accrual is computed on the
\* debt recorded for the previous day (pre-entry debt on an entry day, full
\* pre-exit debt on an exit day), and the recorded row holds the ledger after
\* the transition with equity = cash + invested - debt.
PhaseOrder ==
  {<<"start", "year">>, <<"start", "done">>, <<"year", "accrue">>,
   <<"year", "done">>, <<"accrue", "trade">>, <<"trade", "record">>,
   <<"record", "year">>}

C3_AccrualOnPreTransitionDebt ==
  pc \in {"trade", "record"}
    => /\ Len(yields) = i + 1
       /\ IsInterestOf(daily_interest_cost, PrevDebt, Last(yields) + margin_add)
       /\ Len(regimes) = (IF pc = "trade" THEN i ELSE i + 1)

C3_Steps ==
  /\ pc' # pc => <<pc, pc'>> \in PhaseOrder
  /\ BoundaryStep
       => /\ cash' = cash - accrued_interest_cumulative
          /\ accrued_interest_cumulative' = 0
          /\ Len(yields') = i /\ Len(regimes') = i
  /\ pc = "record"
       => /\ Len(cash_curve') = i + 1
          /\ Last(cash_curve') = cash
          /\ Last(debt_curve') = debt
          /\ Last(invested_curve') = invested_value
          /\ Last(equity_curve') = cash + invested_value - debt

C3_DayOrder == [](C3_AccrualOnPreTransitionDebt) /\ [][C3_Steps]_vars

\* C3 witness: the row of an exit day is about to be recorded; interest was
\* charged on the full debt that the exit has just repaid
C3_Witness ==
  /\ pc = "record" /\ i >= 1
  /\ ExitDay(i + 1)
  /\ debt_curve[i] > 0 /\ debt = 0
  /\ daily_interest_cost > 0

\* the first row of the calendar year of row k
RECURSIVE FirstRowOfYear(_)
FirstRowOfYear(k) ==
  IF k > 1 /\ years[k - 1] = years[k] THEN FirstRowOfYear(k - 1) ELSE k

\* CPI at the start of the year of row k: the first row's CPI for the first
\* year, otherwise the CPI of the last row of the year before
AnchorCpi(k) ==
  IF FirstRowOfYear(k) = 1 THEN cpis[1] ELSE cpis[FirstRowOfYear(k) - 1]

\* limit multiplied by 1 + f, with f = end / anchor - 1
IndexedLimit(limit, end, anchor) ==
  LET f == MulDiv(end, RateScale, anchor) - RateScale
  IN  MulDiv(limit, RateScale + f, RateScale)

\* C4: the settlement on the first day of a new year multiplies margin_limit
\* by 1 + f, f = CPI(last day of the closed year) / CPI(anchor) - 1, where the
\* anchor is the first day's CPI for the first year and the previous closed
\* year's last CPI afterwards; it deducts the whole accumulator from cash,
\* resets it, advances the current year and the anchor, and leaves debt and
\* invested alone.
C4_YearSettlement ==
  [][BoundaryStep
       => /\ margin_limit' = IndexedLimit(margin_limit, cpis[i], AnchorCpi(i))
          /\ cash' = cash - accrued_interest_cumulative
          /\ accrued_interest_cumulative' = 0
          /\ current_year' = Last(years')
          /\ year_start_cpi' = cpis[i]
          /\ debt' = debt
          /\ invested_value' = invested_value]_vars

\* C4 witness: a second settlement has just been made, its anchor differs from
\* the first day's CPI, interest was deducted and the limit has moved
C4_Witness ==
  /\ pc = "accrue" /\ i >= 2
  /\ years[i + 1] # years[i]
  /\ FirstRowOfYear(i) > 1
  /\ AnchorCpi(i) # cpis[1]
  /\ cpis[i] # AnchorCpi(i)
  /\ accrued_interest_cumulative = 0
  /\ cash_curve[i] > cash
  /\ margin_limit # base_limit

\* C5: debt changes only in the transition of an entry day (set to
\* margin_limit) or of an exit day (reduced to 0 or by the proceeds); on every
\* other day the recorded debt equals the previous day's recorded debt.
C5_DebtRows ==
  \A k \in 1..Len(debt_curve) :
    (~EntryDay(k) /\ ~ExitDay(k))
      => debt_curve[k] = (IF k = 1 THEN 0 ELSE debt_curve[k - 1])

C5_DebtStep ==
  debt' # debt
    => \/ TradeStep(1) /\ ~in_market /\ debt' = margin_limit
       \/ TradeStep(0) /\ in_market
            /\ (debt' = 0 \/ debt' = debt - invested_value)

C5_DebtOnlyAtEntryAndExit == [](C5_DebtRows) /\ [][C5_DebtStep]_vars

\* C5 witness: a holding day that crossed a year boundary on which the limit
\* moved away from the debt, recorded with the debt of the day before
C5_Witness ==
  /\ pc = "year" /\ i >= 2
  /\ OpenAfter(i - 1) /\ OpenAfter(i)
  /\ years[i] # years[i - 1]
  /\ margin_limit # debt
  /\ debt > 0
  /\ debt_curve[i] = debt_curve[i - 1]

\* the limit after the settlements of rows 1..k
RECURSIVE LimitAfterRow(_)
LimitAfterRow(k) ==
  IF k <= 1 THEN base_limit
  ELSE IF years[k] # years[k - 1]
       THEN IndexedLimit(LimitAfterRow(k - 1), cpis[k - 1], AnchorCpi(k - 1))
       ELSE LimitAfterRow(k - 1)

\* C6: margin_limit starts at the base limit and is changed only by the
\* settlement, once for each day whose year differs from the previous day's;
\* every other step of every day leaves it alone.
C6_LimitValue == Len(years) >= 1 => margin_limit = LimitAfterRow(Len(years))

C6_LimitStep ==
  (pc # "start" /\ ~BoundaryStep) => margin_limit' = margin_limit

C6_LimitOnlyAtYearBoundary == [](C6_LimitValue) /\ [][C6_LimitStep]_vars

\* C6 witness: after a settlement that moved the limit, a later day of the
\* same year has gone through accrual and an entry or a holding step
C6_Witness ==
  /\ pc = "record" /\ i >= 2
  /\ years[i + 1] = years[i]
  /\ years[i] # years[i - 1]
  /\ cpis[i + 1] # cpis[i]
  /\ margin_limit # base_limit
  /\ in_market

\* interest of ten days on the base limit at 5 % + 1.5 %
TenDayInterest == MulDiv(10 * base_limit, SteadyYield + margin_add, 1000 * DAYS_PER_YEAR)

\* the first k rows are the steady run: entered on the first row and held,
\* in one calendar year, Long_Yield 5 % on the rows after the entry
SteadyRows(k) ==
  /\ \A j \in 1..k : regimes[j] = 1 /\ years[j] = years[1] /\ debt_curve[j] = base_limit
  /\ \A j \in 2..k : yields[j] = SteadyYield

\* C7: every day, in either state, the accumulator grows by
\* debt x (reference rate + 1.5) / 100 / 365: nothing while debt = 0, and also
\* while out of the market with residual debt.  With debt 2000 and a 5 % rate
\* it grows by about 0.3562 a day, about 3.562 over 10 days, and exactly the
\* accumulated amount is deducted from cash at the next year boundary.
C7_AccrualStep ==
  /\ (pc = "accrue" /\ pc' # pc)
       => /\ Len(yields') = Len(yields) + 1
          /\ LET inc == accrued_interest_cumulative' - accrued_interest_cumulative
             IN  /\ IsInterestOf(inc, debt, Last(yields') + margin_add)
                 /\ (debt = 0 => inc = 0)
                 /\ (debt = base_limit /\ Last(yields') = SteadyYield)
                      => (3561 <= inc /\ inc <= 3562)
  /\ BoundaryStep => cash' = cash - accrued_interest_cumulative

C7_TenDays ==
  /\ (pc = "year" /\ i = 11 /\ SteadyRows(11))
       => /\ TenDayInterest - 10 <= accrued_interest_cumulative
          /\ accrued_interest_cumulative <= TenDayInterest
  /\ (pc = "accrue" /\ i = 11 /\ SteadyRows(11) /\ years[12] # years[11])
       => /\ accrued_interest_cumulative = 0
          /\ cash <= 10 - TenDayInterest
          /\ cash >= 0 - TenDayInterest

C7_InterestAccrual == [](C7_TenDays) /\ [][C7_AccrualStep]_vars

\* C7 witness: the steady run held the position ten days at 5 % and the year
\* boundary of the twelfth row has deducted the interest from cash
C7_Witness ==
  /\ pc = "accrue" /\ i = 11 /\ SteadyRows(11)
  /\ years[12] # years[11]
  /\ cash < 0
  /\ accrued_interest_cumulative = 0

\* C7, second witness state: interest accrues while out of the market on
\* residual debt
C7_OutOfMarketAccrual ==
  /\ pc = "trade" /\ ~in_market /\ debt > 0 /\ daily_interest_cost > 0

(***************************************************************************)
(* analyzer.py and margin.get_merged_data.                                 *)
(***************************************************************************)

\* the index of a price history of n consecutive trading days
Calendar(n) == [t \in 1..n |-> FirstPriceDate + t - 1]

\* analyzer.py:115-116, 142  the stored price history, and a stored Fed Funds
\* series that has one row for each of its days
LoadData ==
  /\ spc = "load"
  /\ \E n \in 1..MaxRows :
       /\ Close' \in [1..n -> CloseSet]
       /\ Date' = Calendar(n)
       /\ \E rate \in [1..n -> FedFundsSet] :
            ff_data' = [t \in 1..n |-> <<Date'[t], rate[t]>>]
  /\ spc' = "loaded"
  /\ UNCHANGED <<service_vars, margin_vars, views, derived, filtered, merged>>

\* Close with every missing value replaced by the last value before it:
\* what pct_change does first under its fill_method='pad'
PadClose(close) == [t \in 1..Len(close) |-> FFillAt(close, t)]

\* analyzer.py:115-116  a stored price history whose closes may be 0.0 or
\* missing
LoadRawPrices ==
  /\ spc = "load"
  /\ \E n \in 1..MaxRows :
       /\ Close' \in [1..n -> RawCloseSet]
       /\ Date' = Calendar(n)
  /\ spc' = "prices"
  /\ UNCHANGED <<service_vars, margin_vars, views, ff_data, derived, filtered, merged>>

\* analyzer.py:128-134, 168  the return columns of such a history.  Whether
\* pct_change pads missing closes first depends on the pandas installed
\* (fill_method='pad' is the default up to pandas 2, None afterwards)
PriceReturns ==
  /\ spc = "prices"
  /\ \E pad \in BOOLEAN :
       Simple_Ref' = PctChange(IF pad THEN PadClose(Close) ELSE Close)
  /\ Total_Return_Daily' = [t \in 1..Len(Close) |-> Simple_Ref'[t] + 0]
  /\ Strategy_1x_Daily' = Total_Return_Daily'
  /\ spc' = "returns"
  /\ UNCHANGED <<service_vars, margin_vars, views, inputs, filtered, merged, Fed_Funds_Rate,
                 SMA_200, Regime, Financing_Rate_Daily, Buy_Hold_Growth,
                 Strategy_3x_BH_Daily, Lev_3x_BH_Growth, Strategy_3x_Daily,
                 Lev_3x_Growth>>

NextReturns ==
  \/ LoadRawPrices
  \/ PriceReturns

SpecReturns == Init /\ [][NextReturns]_vars

\* analyzer.py:118-119  no stored data: an empty frame is returned
DataEmpty ==
  /\ spc = "load"
  /\ spc' = "empty"
  /\ UNCHANGED <<service_vars, margin_vars, views, inputs, derived, filtered, merged>>

\* analyzer.py:121-191  every derived column of get_strategy_data
GetStrategyData ==
  /\ spc = "loaded"
  /\ Fed_Funds_Rate' = AlignFedFunds(Date, ff_data)
  /\ SMA_200' = RollingMean(Close)
  /\ Regime' = Shift1(RegimeOfDay(Close, SMA_200'))
  /\ Simple_Ref' = PctChange(Close)
  /\ Total_Return_Daily' = [t \in 1..Len(Close) |-> Simple_Ref'[t] + 0]
  /\ Financing_Rate_Daily' =
       [t \in 1..Len(Close) |-> FinancingRateDaily(Fed_Funds_Rate'[t])]
  /\ Strategy_1x_Daily' = Total_Return_Daily'
  /\ Buy_Hold_Growth' = Growth(Strategy_1x_Daily')
  /\ Strategy_3x_BH_Daily' =
       [t \in 1..Len(Close) |->
          Lev3xReturn(Total_Return_Daily'[t], Financing_Rate_Daily'[t])]
  /\ Lev_3x_BH_Growth' = Growth(Strategy_3x_BH_Daily')
  /\ Strategy_3x_Daily' =
       [t \in 1..Len(Close) |->
          Strategy3xReturn(Regime'[t], Total_Return_Daily'[t], Financing_Rate_Daily'[t])]
  /\ Lev_3x_Growth' = Growth(Strategy_3x_Daily')
  /\ spc' = "cached"
  /\ UNCHANGED <<service_vars, margin_vars, views, inputs, filtered, merged>>

\* analyzer.py:260-308  re-compounding over the rows s..e selected by
\* (start_date, end_date); s > e is a range that selects no row
AnalyzeStrategyFiltered ==
  /\ spc = "cached"
  /\ \E s \in 1..Len(Close), e \in 0..Len(Close) :
       /\ window_start' = s
       /\ window_end' = e
       /\ IF TooFewRows(e - s + 1)
          THEN /\ filtered_result' = "none"
               /\ UNCHANGED <<BH_Filtered, BH_3x_Filtered, Strat_3x_Filtered>>
          ELSE /\ BH_Filtered' = Growth(Window(Strategy_1x_Daily, s, e))
               /\ BH_3x_Filtered' = Growth(Window(Strategy_3x_BH_Daily, s, e))
               /\ Strat_3x_Filtered' = Growth(Window(Strategy_3x_Daily, s, e))
               /\ filtered_result' = "plot"
  /\ spc' = "filtered"
  /\ UNCHANGED <<service_vars, margin_vars, views, inputs, derived, merged>>

\* margin.py:29-70  the Regime and Total_Return_Daily columns as the margin
\* loop reads them (margin.py:117, 123, 126)
GetMergedData ==
  /\ spc = "cached"
  /\ df_Regime' = FillBothWays(Regime)
  /\ lev_returns' = [t \in 1..Len(Close) |-> leveraged_daily_ret(Total_Return_Daily[t])]
  /\ spc' = "merged"
  /\ UNCHANGED <<service_vars, margin_vars, views, inputs, derived, filtered>>

\* analyzer.py:193-254  analyze_strategy: the plot and the table of the whole
\* series, or the exception raised when no price data is stored
AnalyzeStrategy ==
  /\ spc \in {"cached", "empty"}
  /\ strategy_result' = (IF spc = "empty" THEN "error" ELSE "plot")
  /\ spc' = "analyzed"
  /\ UNCHANGED <<service_vars, margin_vars, inputs, derived, filtered, merged, variant_vars,
                 interest_vars>>

(***************************************************************************)
(* lsc.py, lscda.py, lda.py : the rotation and dividend variants.          *)
(***************************************************************************)

\* the stored history the variants read: the prices of one calendar month, a
\* Fed Funds series with the same Rate on each of its days, and the row of
\* that month in the small-cap and in the dividend table (NaN: no such row;
\* both tables have rows)
LoadVariantData ==
  /\ spc = "load"
  /\ \E n \in 1..MaxRows :
       /\ Close' \in [1..n -> VariantCloseSet]
       /\ Date' = Calendar(n)
       /\ \E rate \in FedFundsSet : ff_data' = [t \in 1..n |-> <<Date'[t], rate>>]
  /\ sc_data' \in SmallValueSet
  /\ div_data' \in DividendYieldSet
  /\ spc' = "loaded"
  /\ UNCHANGED <<service_vars, margin_vars, derived, filtered, merged, strategy_result,
                 lsc_frame, lscda_frame, lda_frame, view_result, interest_vars>>

\* lsc.py:26-59, lscda.py:31-56  the small-cap columns of the merged frame:
\* left merge on YearMonth, fillna(0), trading days of the month, daily
\* equivalent of the monthly return
SmallCapColumns ==
  LET small == FillNa(sc_data, 0)
      days == Len(Close)
      daily == DailyEquivalent(small, days)
  IN  [Small_Value_Ret |-> [t \in DOMAIN Close |-> small],
       TradingDays |-> [t \in DOMAIN Close |-> days],
       SC_Daily_Ret |-> [t \in DOMAIN Close |-> daily]]

\* lscda.py:58-62, lda.py:47-50  the dividend columns of the merged frame
DividendColumns ==
  LET yield == [t \in DOMAIN Close |-> FillNa(div_data, 0)]
  IN  [Dividend_Yield |-> yield,
       Div_Daily_Yield |-> [t \in DOMAIN Close |-> DivDailyYield(yield[t])]]

\* lsc.py:61-72, 160-165  the return columns of lsc.py
LscColumns ==
  LET m == SmallCapColumns
      lev == [t \in DOMAIN Close |->
                lev_ret(Total_Return_Daily[t], Financing_Rate_Daily[t])]
  IN  m @@ [LSC_Daily_Ret |->
              [t \in DOMAIN Close |-> WhereRegime(Regime[t], lev[t], m.SC_Daily_Ret[t])],
            Cash_Daily_Ret |->
              [t \in DOMAIN Close |-> WhereRegime(Regime[t], lev[t], 0)]]

\* lscda.py:64-92, 179-187  the return columns of lscda.py
LscdaColumns ==
  LET m == SmallCapColumns @@ DividendColumns
      lev == [t \in DOMAIN Close |->
                Lev3xDivDaily(Simple_Ref[t], m.Div_Daily_Yield[t],
                              Financing_Rate_Daily[t])]
      scdiv == [t \in DOMAIN Close |-> m.SC_Daily_Ret[t] + m.Div_Daily_Yield[t]]
  IN  m @@ [Lev_3x_Div_Daily |-> lev,
            SC_Div_Daily |-> scdiv,
            LSCDA_Daily_Ret |->
              [t \in DOMAIN Close |-> WhereRegime(Regime[t], lev[t], scdiv[t])],
            Cash_Div_Daily_Ret |->
              [t \in DOMAIN Close |-> WhereRegime(Regime[t], lev[t], 0)]]

\* LdaColumns as the docstring of analyze_lda has it: the cash leg earns the
\* dividend ("else 0+div")
LdaColumns_CashEarnsDividend ==
  LET m == DividendColumns
      lev == [t \in DOMAIN Close |->
                Lev3xDivDaily(Simple_Ref[t], m.Div_Daily_Yield[t],
                              Financing_Rate_Daily[t])]
  IN  m @@ [BH_Div_Daily |->
              [t \in DOMAIN Close |-> Simple_Ref[t] + m.Div_Daily_Yield[t]],
            Lev_3x_Div_Daily |-> lev,
            Lev_Cash_Div_Daily |->
              [t \in DOMAIN Close |->
                 WhereRegime(Regime[t], lev[t], m.Div_Daily_Yield[t])]]

\* lda.py:47-76  the return columns of lda.py
LdaColumns ==
  LET m == DividendColumns
      lev == [t \in DOMAIN Close |->
                Lev3xDivDaily(Simple_Ref[t], m.Div_Daily_Yield[t],
                              Financing_Rate_Daily[t])]
  IN  m @@ [BH_Div_Daily |->
              [t \in DOMAIN Close |-> Simple_Ref[t] + m.Div_Daily_Yield[t]],
            Lev_3x_Div_Daily |-> lev,
            Lev_Cash_Div_Daily |->
              [t \in DOMAIN Close |-> WhereRegime(Regime[t], lev[t], 0)]]

\* lsc.py:12-119  analyze_lsc
AnalyzeLsc ==
  /\ spc = "cached"
  /\ LET m == LscColumns
     IN  lsc_frame' = m @@ [LSC_Growth |-> Growth(m.LSC_Daily_Ret)]
  /\ view_result' = "plot"
  /\ spc' = "lsc"
  /\ UNCHANGED <<service_vars, margin_vars, inputs, derived, filtered, merged, strategy_result,
                 sc_data, div_data, lscda_frame, lda_frame, interest_vars>>

\* lsc.py:125-194  analyze_lsc_filtered over the rows s..e
AnalyzeLscFiltered ==
  /\ spc = "cached"
  /\ LET m == LscColumns
     IN  \E s \in 1..Len(Close), e \in 0..Len(Close) :
           /\ window_start' = s
           /\ window_end' = e
           /\ IF TooFewRows(e - s + 1)
              THEN /\ filtered_result' = "none"
                   /\ lsc_frame' = m
              ELSE /\ filtered_result' = "plot"
                   /\ lsc_frame' =
                        m @@ [cash_growth |-> Growth(Window(m.Cash_Daily_Ret, s, e)),
                              lsc_growth |-> Growth(Window(m.LSC_Daily_Ret, s, e))]
  /\ spc' = "lsc_filtered"
  /\ UNCHANGED <<service_vars, margin_vars, inputs, derived, BH_Filtered, BH_3x_Filtered,
                 Strat_3x_Filtered, merged, strategy_result, sc_data, div_data,
                 lscda_frame, lda_frame, view_result, interest_vars>>

\* lscda.py:13-140  analyze_lscda
AnalyzeLscda ==
  /\ spc = "cached"
  /\ LET m == LscdaColumns
     IN  lscda_frame' = m @@ [LSCDA_Growth |-> Growth(m.LSCDA_Daily_Ret),
                              Cash_Div_Growth |-> Growth(m.Cash_Div_Daily_Ret)]
  /\ view_result' = "plot"
  /\ spc' = "lscda"
  /\ UNCHANGED <<service_vars, margin_vars, inputs, derived, filtered, merged, strategy_result,
                 sc_data, div_data, lsc_frame, lda_frame, interest_vars>>

\* lscda.py:143-216  analyze_lscda_filtered over the rows s..e
AnalyzeLscdaFiltered ==
  /\ spc = "cached"
  /\ LET m == LscdaColumns
     IN  \E s \in 1..Len(Close), e \in 0..Len(Close) :
           /\ window_start' = s
           /\ window_end' = e
           /\ IF TooFewRows(e - s + 1)
              THEN /\ filtered_result' = "none"
                   /\ lscda_frame' = m
              ELSE /\ filtered_result' = "plot"
                   /\ lscda_frame' =
                        m @@ [cash_div |-> Growth(Window(m.Cash_Div_Daily_Ret, s, e)),
                              lscda |-> Growth(Window(m.LSCDA_Daily_Ret, s, e))]
  /\ spc' = "lscda_filtered"
  /\ UNCHANGED <<service_vars, margin_vars, inputs, derived, BH_Filtered, BH_3x_Filtered,
                 Strat_3x_Filtered, merged, strategy_result, sc_data, div_data,
                 lsc_frame, lda_frame, view_result, interest_vars>>

\* lda.py:14-141  analyze_lda; the rows lie in one year, whose average
\* dividend yield must be positive for the year to be shown (lda.py:96-100)
AnalyzeLda ==
  /\ spc = "cached"
  /\ LET m == LdaColumns
     IN  /\ lda_frame' = m @@ [Total_LDA_SP500 |-> Growth(m.BH_Div_Daily),
                               Total_LDA_3x |-> Growth(m.Lev_Cash_Div_Daily)]
         /\ view_result' = (IF m.Dividend_Yield[1] > 0 THEN "plot" ELSE "none")
  /\ spc' = "lda"
  /\ UNCHANGED <<service_vars, margin_vars, inputs, derived, filtered, merged, strategy_result,
                 sc_data, div_data, lsc_frame, lscda_frame, interest_vars>>

(***************************************************************************)
(* interest_rate.py : analyze_interest_rate and its re-plot for a range.   *)
(***************************************************************************)
\* date of the k-th monthly row of the market statistics table; the table
\* starts before the price history (FirstPriceDate)
StatsDate(k) == k

\* the dates a range can start or end at
DateAxis == 1..(FirstPriceDate + MaxRows - 1)

\* dividend_module.get_dividend_data / database.py:242  the stored market
\* statistics, ordered by date, beside a stored price history of MaxRows days
LoadMarketStats ==
  /\ spc = "load"
  /\ \E m \in 0..MaxObs :
       \E rate \in [1..m -> LongRateSet] :
         market_stats' = [k \in 1..m |-> <<StatsDate(k), rate[k]>>]
  /\ Close' = [t \in 1..MaxRows |-> 100]
  /\ Date' = Calendar(MaxRows)
  /\ ff_data' = <<>>
  /\ spc' = "stats"
  /\ UNCHANGED <<service_vars, margin_vars, derived, filtered, merged, strategy_result,
                 variant_vars, df_ir, table_data, ir_result, start_date,
                 end_date, ir_window>>

\* interest_rate.py:10-61  analyze_interest_rate
AnalyzeInterestRate ==
  /\ spc = "stats"
  /\ IF market_stats = <<>>
     THEN /\ ir_result' = "none"
          /\ table_data' = <<>>
          /\ UNCHANGED df_ir
     ELSE /\ df_ir' = WithMarginRate(DropNa(market_stats))
          /\ table_data' =
               [k \in 1..Len(df_ir') |-> TableRow(Reverse(df_ir')[k])]
          /\ ir_result' = "plot"
  /\ spc' = "interest"
  /\ UNCHANGED <<service_vars, margin_vars, inputs, derived, filtered, merged, strategy_result,
                 variant_vars, market_stats, start_date, end_date, ir_window>>

\* interest_rate.py:64-95  analyze_interest_rate_filtered(start_date, end_date)
AnalyzeInterestRateFiltered ==
  /\ spc = "stats"
  /\ \E s \in DateAxis, e \in DateAxis :
       /\ start_date' = s
       /\ end_date' = e
       /\ IF market_stats = <<>>
          THEN /\ ir_result' = "none"
               /\ UNCHANGED <<df_ir, ir_window>>
          ELSE /\ df_ir' = WithMarginRate(DropNa(market_stats))
               /\ ir_window' = DateWindow(df_ir', s, e)
               /\ ir_result' = (IF TooFewRows(Len(ir_window')) THEN "none" ELSE "plot")
  /\ spc' = "interest_filtered"
  /\ UNCHANGED <<service_vars, margin_vars, inputs, derived, filtered, merged, strategy_result,
                 variant_vars, market_stats, table_data>>

NextInterest ==
  \/ LoadMarketStats
  \/ AnalyzeInterestRate
  \/ AnalyzeInterestRateFiltered

SpecInterest == Init /\ [][NextInterest]_vars

NextVariants ==
  \/ LoadVariantData
  \/ GetStrategyData
  \/ AnalyzeStrategyFiltered
  \/ AnalyzeLsc
  \/ AnalyzeLscFiltered
  \/ AnalyzeLscda
  \/ AnalyzeLscdaFiltered
  \/ AnalyzeLda
  \/ LoadMarketStats
  \/ AnalyzeInterestRateFiltered

SpecVariants == Init /\ [][NextVariants]_vars

(***************************************************************************)
(* analyzer.py : a Fed Funds series of its own calendar.                   *)
(***************************************************************************)
\* the dates a stored Fed Funds row can carry: before, inside and after the
\* price history
RateDateAxis == 1..(FirstPriceDate + MaxRows)

\* database.py:320  order_by(FedFundsRate.date): the dates in S, ascending
RECURSIVE OrderByDate(_)
OrderByDate(S) ==
  IF S = {} THEN <<>>
  ELSE LET first == CHOOSE d \in S : \A x \in S : d <= x
       IN  <<first>> \o OrderByDate(S \ {first})

\* analyzer.py:115-116, 142 and database.py:279, 315-327  a price history
\* without price moves, and a stored Fed Funds series with at most one row
\* for a date (date is the primary key) and no missing Rate
\* (database.py:302-305); no row at all gives the empty frame
LoadRateData ==
  /\ spc = "load"
  /\ \E n \in 1..MaxRows :
       /\ Close' = [t \in 1..n |-> 100]
       /\ Date' = Calendar(n)
  /\ \E S \in SUBSET RateDateAxis :
       /\ Cardinality(S) <= MaxRates
       /\ \E rate \in [S -> FedFundsSet] :
            ff_data' = [k \in 1..Cardinality(S) |->
                          <<OrderByDate(S)[k], rate[OrderByDate(S)[k]]>>]
  /\ spc' = "loaded"
  /\ UNCHANGED <<service_vars, margin_vars, views, derived, filtered, merged>>

NextRates ==
  \/ LoadRateData
  \/ GetStrategyData

SpecRates == Init /\ [][NextRates]_vars

NextStrategy ==
  \/ LoadData
  \/ DataEmpty
  \/ GetStrategyData
  \/ AnalyzeStrategyFiltered
  \/ GetMergedData
  \/ AnalyzeStrategy

SpecStrategy == Init /\ [][NextStrategy]_vars

(***************************************************************************)
(* Properties of the analyzer pipeline.                                    *)
(***************************************************************************)
Computed == spc \in {"cached", "filtered", "merged"}

Rows == 1..Len(Close)

\* the comparison close(t) > SMA(t) computed on day t: 1, 0, or undefined
\* (NaN) while fewer than SMA_WINDOW closes exist
Comparison(t) ==
  IF t < SMA_WINDOW THEN NaN
  ELSE IF SMA_WINDOW * Close[t] > SumRange(Close, t - SMA_WINDOW + 1, t) THEN 1 ELSE 0

\* the signal day t must use: yesterday's comparison, 0 when there is none
SignalFor(t) ==
  IF t = 1 THEN 0
  ELSE IF Comparison(t - 1) = NaN THEN 0 ELSE Comparison(t - 1)

\* C8: for every day t after the first, the signal that decides day t's
\* strategy return and day t's margin transition is the comparison
\* close(t-1) > SMA(t-1) of the day before, never day t's; when that comparison
\* is undefined, and on the first day, the signal used is 0.
C8_NoLookahead ==
  /\ Computed =>
       \A t \in Rows :
         /\ Regime[t] \in {0, 1, NaN}
         /\ (Regime[t] = 1) <=> (SignalFor(t) = 1)
         /\ Strategy_3x_Daily[t] =
              (IF SignalFor(t) = 1
               THEN Max(3 * Total_Return_Daily[t] - Financing_Rate_Daily[t]
                          - ETF_EXPENSE_RATIO_DAILY, 0 - RetScale)
               ELSE 0)
  /\ spc = "merged" =>
       \A t \in Rows : (df_Regime[t] = 1) <=> (SignalFor(t) = 1)

\* C8 witness: the merged frame of a history in which some day's signal is 1
\* while that day's own comparison is 0
C8_Witness ==
  /\ spc = "merged"
  /\ \E t \in Rows : t >= 2 /\ df_Regime[t] = 1 /\ Regime[t] = 1 /\ Comparison(t) = 0

\* growth column g compounds the return column r from row 2 on
Compounds(g, r) ==
  /\ Len(g) = Len(r)
  /\ \A t \in 2..Len(g) : g[t] = MulDiv(g[t - 1], RetScale + r[t], RetScale)

RecurrenceHolds ==
  /\ Computed =>
       /\ Compounds(Buy_Hold_Growth, Strategy_1x_Daily)
       /\ Compounds(Lev_3x_BH_Growth, Strategy_3x_BH_Daily)
       /\ Compounds(Lev_3x_Growth, Strategy_3x_Daily)
  /\ (spc = "filtered" /\ filtered_result = "plot") =>
       /\ Compounds(BH_Filtered, Window(Strategy_1x_Daily, window_start, window_end))
       /\ Compounds(BH_3x_Filtered, Window(Strategy_3x_BH_Daily, window_start, window_end))
       /\ Compounds(Strat_3x_Filtered, Window(Strategy_3x_Daily, window_start, window_end))

\* x is within tol of target
Near(x, target, tol) == target - tol <= x /\ x <= target + tol

\* the scenario of the claim: closes 100, 101, 99 at a Fed Funds rate of 0
Scenario ==
  /\ Computed
  /\ Close = <<100, 101, 99>>
  /\ Fed_Funds_Rate = <<0, 0, 0>>

Cent == MoneyScale \div 100
Millionth == RetScale \div 1000000

C10_FirstDayIsInitialCapital ==
  /\ Computed =>
       /\ Buy_Hold_Growth[1] = initial_capital
       /\ Lev_3x_BH_Growth[1] = initial_capital
       /\ Lev_3x_Growth[1] = initial_capital
  /\ (spc = "filtered" /\ filtered_result = "plot") =>
       /\ BH_Filtered[1] = initial_capital
       /\ BH_3x_Filtered[1] = initial_capital
       /\ Strat_3x_Filtered[1] = initial_capital

(***************************************************************************)
(* Properties of the strategy variants.                                    *)
(***************************************************************************)
\* the daily return column of each variant held in a merged frame
ReturnColumns ==
  {"LSC_Daily_Ret", "Cash_Daily_Ret", "LSCDA_Daily_Ret", "Cash_Div_Daily_Ret",
   "BH_Div_Daily", "Lev_Cash_Div_Daily"}

\* the portfolio-value columns of the merged frames, full series and re-based
GrowthColumns ==
  {"LSC_Growth", "cash_growth", "lsc_growth", "LSCDA_Growth", "Cash_Div_Growth",
   "cash_div", "lscda", "Total_LDA_SP500", "Total_LDA_3x"}

\* every value of the columns `names` that the frame holds is at least `low`
ColumnsAtLeast(frm, names, low) ==
  \A c \in names :
    c \in DOMAIN frm => \A t \in DOMAIN frm[c] : frm[c][t] >= low

SeqAtLeast(col, low) == \A t \in DOMAIN col : col[t] >= low

\* C11: on every day the return of every strategy variant (buy and hold,
\* always-on leveraged, regime-filtered, rotation, cash, and their dividend
\* versions) is at least -1.0, and no portfolio value, over the full series
\* or a re-based window, is negative.
C11_ReturnAtLeastMinusOne ==
  /\ SeqAtLeast(Strategy_1x_Daily, 0 - RetScale)
  /\ SeqAtLeast(Strategy_3x_BH_Daily, 0 - RetScale)
  /\ SeqAtLeast(Strategy_3x_Daily, 0 - RetScale)
  /\ \A frm \in {lsc_frame, lscda_frame, lda_frame} :
       /\ ColumnsAtLeast(frm, ReturnColumns, 0 - RetScale)
       /\ ColumnsAtLeast(frm, GrowthColumns, 0)
  /\ SeqAtLeast(Buy_Hold_Growth, 0)
  /\ SeqAtLeast(Lev_3x_BH_Growth, 0)
  /\ SeqAtLeast(Lev_3x_Growth, 0)
  /\ SeqAtLeast(BH_Filtered, 0)
  /\ SeqAtLeast(BH_3x_Filtered, 0)
  /\ SeqAtLeast(Strat_3x_Filtered, 0)

\* a day in the market whose tripled loss exceeds 100 %: the rotation variant
\* loses exactly everything and its portfolio value is 0 from then on
C11_Witness ==
  /\ spc = "lsc"
  /\ \E t \in DOMAIN Close :
       /\ Regime[t] = 1
       /\ 3 * Total_Return_Daily[t] < 0 - RetScale
       /\ lsc_frame.LSC_Daily_Ret[t] = 0 - RetScale
       /\ lsc_frame.LSC_Growth[t] = 0
       /\ Strategy_3x_Daily[t] = 0 - RetScale

\* financing_cost_daily + expense_cost_daily of day t
CostOfDay(t) == Financing_Rate_Daily[t] + ETF_EXPENSE_RATIO_DAILY

\* C12 as stated: on every day with a positive cost the always-on leveraged
\* return is strictly below 3 x price_return, also when 3 x price_return is
\* at or below -1.0.
C12_AsClaimed ==
  Computed =>
    \A t \in Rows :
      CostOfDay(t) > 0 => Strategy_3x_BH_Daily[t] < 3 * Total_Return_Daily[t]

\* C12: on every day with a positive cost, the always-on leveraged return is
\* strictly below 3 x price_return whenever 3 x price_return is above -1.0;
\* when 3 x price_return is at or below -1.0 the return is the floor -1.0,
\* which is not below 3 x price_return.
C12_CostDrag ==
  Computed =>
    \A t \in Rows :
      CostOfDay(t) > 0 =>
        IF 3 * Total_Return_Daily[t] > 0 - RetScale
        THEN Strategy_3x_BH_Daily[t] < 3 * Total_Return_Daily[t]
        ELSE /\ Strategy_3x_BH_Daily[t] = 0 - RetScale
             /\ Strategy_3x_BH_Daily[t] >= 3 * Total_Return_Daily[t]

\* a series with a day whose tripled loss is above -1.0 and a day whose
\* tripled loss is below it, both with a positive cost
C12_Witness ==
  /\ Computed
  /\ \E t \in Rows :
       /\ CostOfDay(t) > 0
       /\ Total_Return_Daily[t] < 0
       /\ 3 * Total_Return_Daily[t] > 0 - RetScale
       /\ Strategy_3x_BH_Daily[t] < 3 * Total_Return_Daily[t]
  /\ \E t \in Rows :
       /\ CostOfDay(t) > 0
       /\ 3 * Total_Return_Daily[t] < 0 - RetScale
       /\ Strategy_3x_BH_Daily[t] = 0 - RetScale

\* the first n values of a column
Prefix(col, n) == [k \in 1..n |-> col[k]]

\* C13: a re-basing over the window made of the first N >= 2 days of the
\* series gives, for each of those days and each variant (buy and hold,
\* always-on leveraged, regime-filtered, rotation, cash, and the dividend
\* versions of the last two), exactly the portfolio value of the full-series
\* computation.
C13_PrefixRebasing ==
  /\ (spc = "filtered" /\ filtered_result = "plot" /\ window_start = 1) =>
       /\ BH_Filtered = Prefix(Buy_Hold_Growth, window_end)
       /\ BH_3x_Filtered = Prefix(Lev_3x_BH_Growth, window_end)
       /\ Strat_3x_Filtered = Prefix(Lev_3x_Growth, window_end)
  /\ (spc = "lsc_filtered" /\ filtered_result = "plot" /\ window_start = 1) =>
       /\ lsc_frame.lsc_growth =
            Prefix(Growth(lsc_frame.LSC_Daily_Ret), window_end)
       /\ lsc_frame.cash_growth = Prefix(Lev_3x_Growth, window_end)
  /\ (spc = "lscda_filtered" /\ filtered_result = "plot" /\ window_start = 1) =>
       /\ lscda_frame.lscda =
            Prefix(Growth(lscda_frame.LSCDA_Daily_Ret), window_end)
       /\ lscda_frame.cash_div =
            Prefix(Growth(lscda_frame.Cash_Div_Daily_Ret), window_end)

\* a re-basing over the first two days of a three-day history whose values
\* move on both days
C13_Witness ==
  /\ spc = "filtered" /\ filtered_result = "plot"
  /\ window_start = 1 /\ window_end = 2 /\ Len(Close) = 3
  /\ BH_Filtered[2] # BH_Filtered[1]
  /\ BH_3x_Filtered[1] # initial_capital
  /\ BH_3x_Filtered[2] = Lev_3x_BH_Growth[2]

\* number of days of the price calendar inside [s, e]
PriceDaysIn(s, e) == Cardinality({t \in DOMAIN Date : s <= Date[t] /\ Date[t] <= e})

\* number of stored rows with a Long Interest Rate dated inside [s, e]
RateRowsIn(s, e) ==
  Cardinality({k \in DOMAIN market_stats :
                 /\ market_stats[k][2] # NaN
                 /\ s <= market_stats[k][1] /\ market_stats[k][1] <= e})

\* the re-basings over the price calendar: a window of fewer than two rows
\* gives no result, and a result holds at least two points
PriceRebasingRejects ==
  /\ spc \in {"filtered", "lsc_filtered", "lscda_filtered"} =>
       (window_end - window_start + 1 < 2 => filtered_result = "none")
  /\ (spc = "filtered" /\ filtered_result = "plot") =>
       /\ Len(BH_Filtered) >= 2
       /\ Len(BH_3x_Filtered) >= 2
       /\ Len(Strat_3x_Filtered) >= 2
  /\ (spc = "lsc_filtered" /\ filtered_result = "plot") =>
       /\ Len(lsc_frame.lsc_growth) >= 2
       /\ Len(lsc_frame.cash_growth) >= 2
  /\ (spc = "lscda_filtered" /\ filtered_result = "plot") =>
       /\ Len(lscda_frame.lscda) >= 2
       /\ Len(lscda_frame.cash_div) >= 2

\* C14 as stated: a range holding fewer than 2 days of the price calendar
\* gives no result in every re-basing operation, the interest-rate one
\* included.
C14_AsClaimed ==
  /\ PriceRebasingRejects
  /\ spc = "interest_filtered" =>
       (PriceDaysIn(start_date, end_date) < 2 => ir_result = "none")

\* C14: every re-basing operation returns the no-result value, and never a
\* zero-point or single-point series, for a range (end < start and ranges
\* outside the data included) that holds fewer than 2 observations of the
\* series the operation plots: days of the price calendar for leverage, LSC
\* and LSCDA, dated rows with a Long Interest Rate for the interest rate.
C14_DegenerateRangeRejected ==
  /\ PriceRebasingRejects
  /\ spc = "interest_filtered" =>
       /\ RateRowsIn(start_date, end_date) < 2 => ir_result = "none"
       /\ ir_result = "plot" => Len(ir_window) >= 2

\* the interest-rate re-plot refuses a range that holds one of the three
\* stored rates, and a reversed range
C14_Witness ==
  /\ spc = "interest_filtered"
  /\ Len(DropNa(market_stats)) = 3
  /\ \/ start_date <= end_date /\ RateRowsIn(start_date, end_date) = 1
     \/ end_date < start_date
  /\ ir_result = "none"

\* C16: on every day whose applied signal is 1 the regime-filtered return,
\* the rotation return and the cash return all equal that day's always-on
\* leveraged return max(-1, 3 x price_return - financing - expense); on every
\* day whose signal is 0 or undefined the regime-filtered and the cash
\* return are exactly 0.
C16_VariantConsistency ==
  spc \in {"lsc", "lsc_filtered"} =>
    \A t \in Rows :
      LET always_on ==
            Max(3 * Total_Return_Daily[t] - Financing_Rate_Daily[t]
                  - ETF_EXPENSE_RATIO_DAILY, 0 - RetScale)
      IN  /\ Strategy_3x_BH_Daily[t] = always_on
          /\ IF Regime[t] = 1
             THEN /\ Strategy_3x_Daily[t] = always_on
                  /\ lsc_frame.LSC_Daily_Ret[t] = always_on
                  /\ lsc_frame.Cash_Daily_Ret[t] = always_on
             ELSE /\ Strategy_3x_Daily[t] = 0
                  /\ lsc_frame.Cash_Daily_Ret[t] = 0

\* a history with a day in the market carrying a gain, and a day out of the
\* market on which the price moved and the rotation asset earned a return
C16_Witness ==
  /\ spc = "lsc"
  /\ \E t \in Rows :
       /\ Regime[t] = 1
       /\ Total_Return_Daily[t] > 0
       /\ lsc_frame.LSC_Daily_Ret[t] = Strategy_3x_BH_Daily[t]
  /\ \E t \in Rows :
       /\ Regime[t] # 1
       /\ Total_Return_Daily[t] # 0
       /\ lsc_frame.LSC_Daily_Ret[t] > 0
       /\ lsc_frame.Cash_Daily_Ret[t] = 0

\* the always-on leveraged return of day t, without dividend
LeveragedOfDay(t) ==
  Max(3 * Simple_Ref[t] - Financing_Rate_Daily[t] - DIV_EXPENSE_RATIO_DAILY,
      0 - RetScale)

\* C17: on every day the daily dividend yield is added exactly once, at 1x,
\* to the base return of the day: the leveraged return on a day with signal
\* 1, the rotation return or the cash return 0 on a day with signal 0.
C17_DividendAddedOnce ==
  /\ spc \in {"lscda", "lscda_filtered"} =>
       \A t \in Rows :
         LET dv == lscda_frame.Div_Daily_Yield[t]
         IN  IF Regime[t] = 1
             THEN /\ lscda_frame.LSCDA_Daily_Ret[t] = LeveragedOfDay(t) + dv
                  /\ lscda_frame.Cash_Div_Daily_Ret[t] = LeveragedOfDay(t) + dv
             ELSE /\ lscda_frame.LSCDA_Daily_Ret[t] = lscda_frame.SC_Daily_Ret[t] + dv
                  /\ lscda_frame.Cash_Div_Daily_Ret[t] = 0 + dv
  /\ spc = "lda" =>
       \A t \in Rows :
         LET dv == lda_frame.Div_Daily_Yield[t]
         IN  /\ lda_frame.BH_Div_Daily[t] = Simple_Ref[t] + dv
             /\ lda_frame.Lev_Cash_Div_Daily[t] =
                  (IF Regime[t] = 1 THEN LeveragedOfDay(t) + dv ELSE 0 + dv)

(***************************************************************************)
(* Properties of the cost model's reference rate.                          *)
(***************************************************************************)
\* the stored Fed Funds rows dated at or before the trading day t
RowsUpTo(t) == {k \in DOMAIN ff_data : ff_data[k][1] <= Date[t]}

\* the most recent of them
LatestRowUpTo(t) ==
  CHOOSE k \in RowsUpTo(t) : \A j \in RowsUpTo(t) : ff_data[j][1] <= ff_data[k][1]

\* C18: on every trading day the reference rate is the rate of the most
\* recent stored row dated at or before the day; it is the fallback 1 (%) on
\* the days before the first stored row and on every day when no row is
\* stored; the daily financing cost 2 x (rate / 100) / 252 is defined on
\* every trading day.
C18_RateAlignment ==
  spc = "cached" =>
    /\ Len(Fed_Funds_Rate) = Len(Date)
    /\ Len(Financing_Rate_Daily) = Len(Date)
    /\ \A t \in DOMAIN Date :
         /\ Fed_Funds_Rate[t] =
              (IF RowsUpTo(t) = {} THEN 1 ELSE ff_data[LatestRowUpTo(t)][2])
         /\ Fed_Funds_Rate[t] # NaN
         /\ Financing_Rate_Daily[t] =
              (2 * Fed_Funds_Rate[t] * (RetScale \div 100)) \div 252
         /\ Financing_Rate_Daily[t] >= 0

\* a trading day before the first stored rate, followed by a trading day
\* that takes the rate of an earlier date because no row carries its own date
C18_Witness ==
  /\ spc = "cached" /\ ff_data # <<>>
  /\ \E t \in DOMAIN Date :
       /\ RowsUpTo(t) = {}
       /\ Fed_Funds_Rate[t] = 1
  /\ \E t \in DOMAIN Date :
       /\ RowsUpTo(t) # {}
       /\ \A k \in DOMAIN ff_data : ff_data[k][1] # Date[t]
       /\ Fed_Funds_Rate[t] = 2

(***************************************************************************)
(* Properties of the views' error handling.                                *)
(***************************************************************************)
\* a stored price history shorter than the moving-average window
ShortHistory == Len(Close) >= 1 /\ Len(Close) < SMA_WINDOW

\* C19: when the price history has fewer points than the moving-average
\* window, so that the regime is undefined on every day, the view reports an
\* error to its caller and no return or portfolio-value series is returned.
C19_InsufficientHistoryReported ==
  ShortHistory =>
    /\ spc = "analyzed" => strategy_result = "error"
    /\ spc \in {"cached", "analyzed"} =>
         /\ Strategy_3x_Daily = <<>>
         /\ Lev_3x_Growth = <<>>

(***************************************************************************)
(* Properties of the interest-rate view.                                   *)
(***************************************************************************)
\* the stored monthly rows that carry a Long Interest Rate
RatedRows == {k \in DOMAIN market_stats : market_stats[k][2] # NaN}

\* the stored rates 2.0, 3.0, 4.0 of three consecutive months
ThreeRates ==
  market_stats = <<<<StatsDate(1), 2000>>, <<StatsDate(2), 3000>>, <<StatsDate(3), 4000>>>>

\* C20: the table of analyze_interest_rate has exactly one row for each
\* stored observation with a Long Interest Rate, newest date first, showing
\* the rate and, as margin_rate, the rate plus 1.5 percentage points, both
\* with two decimals; rates 2.0, 3.0, 4.0 give the margin rates 5.50, 4.50,
\* 3.50 in that order.
C20_InterestRateTable ==
  (spc = "interest" /\ market_stats # <<>>) =>
    /\ ir_result = "plot"
    /\ Len(table_data) = Cardinality(RatedRows)
    /\ \A k \in RatedRows :
         \E j \in DOMAIN table_data :
           /\ table_data[j].date = market_stats[k][1]
           /\ table_data[j].rate = Fmt2(market_stats[k][2])
           /\ table_data[j].margin_rate = Fmt2(market_stats[k][2] + 1500)
           /\ table_data[j].margin_rate = table_data[j].rate + 150
    /\ \A j \in DOMAIN table_data :
         j > 1 => table_data[j].date < table_data[j - 1].date
    /\ ThreeRates =>
         /\ Len(table_data) = 3
         /\ table_data[1].margin_rate = 550 /\ table_data[1].rate = 400
         /\ table_data[2].margin_rate = 450
         /\ table_data[3].margin_rate = 350

\* the table of the rates 2.0, 3.0, 4.0
C20_Witness ==
  /\ spc = "interest"
  /\ ThreeRates
  /\ table_data[1] = [date |-> StatsDate(3), rate |-> 400, margin_rate |-> 550]

(***************************************************************************)
(* Properties shared by lda.py and lscda.py.                               *)
(***************************************************************************)
\* C21: on the same prices, regimes, financing rates and dividend yields the
\* LDA 3x path (Total_LDA_3x) equals the 'Cash + Div' path of LSCDA
\* (Cash_Div_Growth) on every day, and so do the daily returns behind them,
\* on days with signal 1 and on days with signal 0.
C21_LdaEqualsCashDiv ==
  /\ spc = "lda" =>
       /\ lda_frame.Lev_Cash_Div_Daily = LscdaColumns.Cash_Div_Daily_Ret
       /\ lda_frame.Total_LDA_3x = Growth(LscdaColumns.Cash_Div_Daily_Ret)
  /\ spc = "lscda" =>
       /\ lscda_frame.Cash_Div_Daily_Ret = LdaColumns.Lev_Cash_Div_Daily
       /\ lscda_frame.Cash_Div_Growth = Growth(LdaColumns.Lev_Cash_Div_Daily)

\* analyze_lda has run on a history with a dividend yield, a day in the
\* market whose price moved and a day out of the market
C21_Witness ==
  /\ spc = "lda"
  /\ \E t \in Rows : Regime[t] = 1 /\ Simple_Ref[t] # 0
                       /\ lda_frame.Lev_Cash_Div_Daily[t] # 0
  /\ \E t \in Rows : Regime[t] # 1 /\ lda_frame.Div_Daily_Yield[t] > 0
  /\ lda_frame.Total_LDA_3x[Len(Close)] # initial_capital

(***************************************************************************)
(* Further properties of the margin simulator.                             *)
(***************************************************************************)
\* C22: the leveraged daily return that a holding day of the margin loop
\* applies to the invested value (lev_returns of margin.py) is, on every day,
\* the always-on leveraged strategy return of the other variants:
\* 3 x price_return - financing_cost_daily - expense_cost_daily, floored at
\* -1.0.
C22_HoldAppliesStrategyReturn ==
  spc = "merged" =>
    \A t \in Rows : lev_returns[t] = Strategy_3x_BH_Daily[t]

\* the rows e..k are one holding period: row e is an entry day and the
\* signal is 1 on every row up to k
HeldSince(e, k) ==
  /\ e <= k
  /\ EntryDay(e)
  /\ \A j \in e..k : regimes[j] = 1

\* an entry into a cash hole leaves a negative cash balance in its row; any
\* other entry leaves cash at 0
HoleEntry(e) == EntryDay(e) /\ cash_curve[e] < 0

C23_HoleStep ==
  (TradeStep(1) /\ ~in_market /\ cash + margin_limit < 0)
    => /\ in_market'
       /\ debt' = margin_limit
       /\ invested_value' = 0
       /\ cash' = cash + margin_limit
       /\ cash' < 0

C23_HoleRows ==
  \A e \in 1..Len(invested_curve) : \A k \in e..Len(invested_curve) :
    (HoleEntry(e) /\ HeldSince(e, k))
      => /\ invested_curve[k] = 0
         /\ debt_curve[k] = debt_curve[e]

\* C23: an entry made when pre-entry cash + margin_limit < 0 still opens the
\* position with debt = margin_limit, clamps invested to 0 and leaves cash at
\* the negative residual pre-entry cash + margin_limit; invested is 0 on
\* every day of the holding period that follows.
C23_EntryWithCashHole == [](C23_HoleRows) /\ [][C23_HoleStep]_vars

\* C23 witness: settled interest exceeded the limit, the position was opened
\* into the hole on the third row, and the fourth row held it through a
\* price gain with nothing invested
C23_Witness ==
  /\ pc = "year" /\ i = 4
  /\ HoleEntry(3) /\ HeldSince(3, 4)
  /\ cash_curve[3] < 0 /\ debt_curve[3] = margin_limit
  /\ Total_Return_Daily[4] > 0
  /\ invested_curve[4] = 0
  /\ equity_curve[4] = cash_curve[3] - debt_curve[3]

(***************************************************************************)
(* Properties of the price return.                                         *)
(***************************************************************************)
\* the close of day t is a number
Defined(x) == x # NaN

\* C24: price_return(t) = close(t) / close(t-1) - 1 on every day whose
\* close is defined and whose previous close is defined and not 0; it is 0
\* on the first day and on every day whose previous close is 0 or undefined;
\* so every price return and every return derived from it is finite.
C24_PriceReturnGuarded ==
  spc = "returns" =>
    \A t \in Rows :
      /\ (t > 1 /\ Defined(Close[t]) /\ Defined(Close[t - 1]) /\ Close[t - 1] # 0)
           => Simple_Ref[t] = MulDiv(Close[t], RetScale, Close[t - 1]) - RetScale
      /\ (t = 1 \/ ~Defined(Close[t - 1]) \/ Close[t - 1] = 0)
           => Simple_Ref[t] = 0
      /\ Simple_Ref[t] # Inf
      /\ Total_Return_Daily[t] # Inf
      /\ Strategy_1x_Daily[t] # Inf

\* C27: an entry conserves equity: cash + invested - debt right after an
\* entry transition equals cash + invested - debt right before it, also when
\* residual debt of an earlier partial repayment is still outstanding.
C27_EntryConservesEquity ==
  [][(pc = "trade" /\ ~in_market /\ in_market')
       => Equity(cash', invested_value', debt') = Equity(cash, invested_value, debt)]_vars

\* C28: an exit conserves equity: cash + invested - debt right after an exit
\* transition equals cash + invested - debt right before it, also when cash
\* is negative because year-end interest was deducted while holding.
C28_ExitConservesEquity ==
  [][(pc = "trade" /\ in_market /\ ~in_market')
       => Equity(cash', invested_value', debt') = Equity(cash, invested_value, debt)]_vars

\* the value an amount v invested on the entry day e has after the leveraged
\* returns of the days e+1 .. k have been applied to it, one day at a time
RECURSIVE Compounded(_, _, _)
Compounded(v, e, k) ==
  IF k <= e THEN v
  ELSE ApplyReturn(Compounded(v, e, k - 1), leveraged_daily_ret(Total_Return_Daily[k]))

\* the same product applied to an amount of either sign
Scaled(v, e, k) == IF v >= 0 THEN Compounded(v, e, k) ELSE 0 - Compounded(0 - v, e, k)

\* pre-entry cash + margin_limit of the entry of row e, as the entry leaves it
\* in that row: it is all in invested, or all in cash when it is negative
PreEntryFunds(e) == cash_curve[e] + invested_curve[e]

\* the entry day opens the position and applies no return
C29_EntryStep ==
  (pc = "trade" /\ ~in_market /\ in_market')
    => /\ cash' + invested_value' = cash + margin_limit
       /\ invested_value' = Max(cash + margin_limit, 0)

\* the exit sells what the run of days e .. i has made of amount(e), and
\* applies no return of its own day
ExitSells(amount(_)) ==
  (pc = "trade" /\ in_market /\ ~in_market')
    => \E e \in 1..i :
         /\ HeldSince(e, i)
         /\ LET proceeds == amount(e)
            IN  IF proceeds >= debt
                THEN cash' = proceeds - debt /\ debt' = 0
                ELSE debt' = debt - proceeds /\ cash' = 0

AmountClamped(e) == Compounded(Max(PreEntryFunds(e), 0), e, i)
AmountAsClaimed(e) == Scaled(PreEntryFunds(e), e, i)

\* C29 (amended): in a run of k >= 1 days with applied signal 1 that starts
\* out of the market, the entry day applies no return and the exit day that
\* follows applies none: the proceeds at exit are max(pre-entry cash +
\* margin_limit, 0) times the product of (1 + leveraged return) over the last
\* k-1 days of the run.
C29_ReturnDaysOfHolding ==
  [][C29_EntryStep /\ ExitSells(AmountClamped)]_vars

\* C29 as claimed: the proceeds at exit are (pre-entry cash + margin_limit)
\* times the product of (1 + leveraged return) over the last k-1 days, with
\* no clamp of a negative amount.
C29_AsClaimed == [][ExitSells(AmountAsClaimed)]_vars

\* C29 witness: entry on the first row, two holding days with a gain each,
\* exit on the fourth row with the compounded amount repaying the debt
C29_Witness ==
  /\ pc = "year" /\ i = 4
  /\ regimes = <<1, 1, 1, 0>>
  /\ Total_Return_Daily[2] > 0 /\ Total_Return_Daily[3] > 0
  /\ invested_curve[3] = Compounded(debt_curve[1], 1, 3)
  /\ invested_curve[3] > invested_curve[1]
  /\ debt_curve[4] = 0
  /\ cash_curve[4] = invested_curve[3] - debt_curve[3]

\* C30: with CPI > 0 and reference rate + spread >= 0 on every day, at every
\* point of the loop and so after every day: invested >= 0, debt >= 0,
\* margin_limit > 0 and the accrued interest >= 0; invested = 0 whenever the
\* account is out of the market; cash <= 0 whenever it is in the market; and
\* cash > 0 never coexists with debt > 0.
C30_LedgerSigns ==
  Len(years) >= 1 =>
    /\ invested_value >= 0
    /\ debt >= 0
    /\ margin_limit > 0
    /\ accrued_interest_cumulative >= 0
    /\ ~in_market => invested_value = 0
    /\ in_market => cash <= 0
    /\ ~(cash > 0 /\ debt > 0)
    /\ \A k \in 1..Len(equity_curve) :
         /\ invested_curve[k] >= 0 /\ debt_curve[k] >= 0
         /\ ~OpenAfter(k) => invested_curve[k] = 0
         /\ OpenAfter(k) => cash_curve[k] <= 0
         /\ ~(cash_curve[k] > 0 /\ debt_curve[k] > 0)

\* C30 witness: the year changed while the position was open, so the third
\* row holds it with negative cash; the exit of the fourth row repaid the
\* debt in full and left positive cash
C30_Witness ==
  /\ pc = "year" /\ i = 4
  /\ regimes = <<1, 1, 1, 0>>
  /\ cash_curve[3] < 0 /\ debt_curve[3] > 0 /\ invested_curve[3] > debt_curve[3]
  /\ cash > 0 /\ debt = 0 /\ invested_value = 0

Next ==
  \/ ReturnEmpty
  \/ Setup
  \/ SameYear
  \/ YearChange
  \/ Accrue
  \/ Enter
  \/ Hold
  \/ Exit
  \/ StayOut
  \/ Record
  \/ Finish

Spec == Init /\ [][Next]_vars

(***************************************************************************)
(* Two runs on the same input: get_strategy_data after the cache has been  *)
(* cleared, and calculate_margin_strategy on the frame it has returned.    *)
(***************************************************************************)
\* app.py:32  data_cache.clear(): the next get_strategy_data computes again
\* (analyzer.py:74-76 finds no cached frame)
ClearCache ==
  /\ spc = "cached"
  /\ spc' = "loaded"
  /\ UNCHANGED <<service_vars, margin_vars, views, inputs, derived, filtered, merged>>

\* margin.py:294-299  a frame of RerunDays rows is handed to
\* calculate_margin_strategy; its Total_Return_Daily column is fixed here,
\* its other input columns as the loop of the first run reads them
GetFrame ==
  /\ spc = "load"
  /\ Total_Return_Daily' \in [1..RerunDays -> RerunReturnSet]
  /\ spc' = "merged"
  /\ UNCHANGED <<service_vars, margin_vars, views, inputs, filtered, merged, Fed_Funds_Rate,
                 SMA_200, Regime, Simple_Ref, Financing_Rate_Daily,
                 Strategy_1x_Daily, Buy_Hold_Growth, Strategy_3x_BH_Daily,
                 Lev_3x_BH_Growth, Strategy_3x_Daily, Lev_3x_Growth>>

\* margin.py:72  calculate_margin_strategy is called again, with the frame
\* the first call returned
RunAgain ==
  /\ pc = "done"
  /\ df # <<>>
  /\ pc' = "start"
  /\ UNCHANGED <<i, frame, cash, debt, invested_value, margin_limit, current_year,
                 year_start_cpi, accrued_interest_cumulative, daily_interest_cost,
                 in_market, curves, df>>
  /\ UNCHANGED <<strategy_vars, service_vars>>

\* col is the beginning of the column full
IsPrefix(col, full) ==
  /\ Len(col) <= Len(full)
  /\ \A k \in 1..Len(col) : col[k] = full[k]

\* a step of the loop over the frame handed over: the frame has the rows of
\* its Total_Return_Daily column and a Long_Yield of SteadyYield, the loop
\* ends after its last row, and a second run reads the rows the first run
\* has read
ReadsFrame ==
  /\ Len(years') <= Len(Total_Return_Daily)
  /\ \A k \in 1..Len(yields') : yields'[k] = SteadyYield
  /\ pc' = "done" => i = Len(Total_Return_Daily)
  /\ df # <<>> =>
       /\ IsPrefix(years', df.years)
       /\ IsPrefix(cpis', df.CPI)
       /\ IsPrefix(yields', df.Long_Yield)
       /\ IsPrefix(regimes', df.Regime)

NextRerun ==
  \/ LoadData
  \/ GetStrategyData
  \/ ClearCache
  \/ GetFrame
  \/ (spc = "merged" /\ Next /\ ReadsFrame)
  \/ RunAgain

SpecRerun == Init /\ [][NextRerun]_vars

(***************************************************************************)
(* calculate_margin_strategy on frames whose Total_Return_Daily column is  *)
(* known before the loop starts and whose Long_Yield can be high enough    *)
(* for the interest to exceed the margin limit.                            *)
(***************************************************************************)
\* margin.py:294-299  a frame of MaxDays rows is handed to
\* calculate_margin_strategy; its Total_Return_Daily column is fixed here,
\* its other input columns as the loop reads them
GetLedgerFrame ==
  /\ spc = "load"
  /\ Total_Return_Daily' \in [1..MaxDays -> RerunReturnSet]
  /\ spc' = "ledger"
  /\ UNCHANGED <<service_vars, margin_vars, views, inputs, filtered, merged, Fed_Funds_Rate,
                 SMA_200, Regime, Simple_Ref, Financing_Rate_Daily,
                 Strategy_1x_Daily, Buy_Hold_Growth, Strategy_3x_BH_Daily,
                 Lev_3x_BH_Growth, Strategy_3x_Daily, Lev_3x_Growth>>

\* a step of the loop over that frame: the loop reads no more rows than the
\* frame has and ends after its last row
ReadsLedgerFrame ==
  /\ Len(years') <= Len(Total_Return_Daily)
  /\ pc' = "done" => i = Len(Total_Return_Daily)

NextLedger ==
  \/ GetLedgerFrame
  \/ (spc = "ledger" /\ Next /\ ReadsLedgerFrame)

SpecLedger == Init /\ [][NextLedger]_vars

(***************************************************************************)
(* Properties of repeated runs.                                            *)
(***************************************************************************)
\* a second run of calculate_margin_strategy is under way or has ended
SecondRun == df # <<>>

\* every row the second run has recorded equals the row the first run wrote
C15_SecondRunRows ==
  SecondRun =>
    /\ IsPrefix(equity_curve, df.Margin_Equity)
    /\ IsPrefix(debt_curve, df.Margin_Debt)
    /\ IsPrefix(cash_curve, df.Margin_Cash)
    /\ IsPrefix(invested_curve, df.Margin_Invested)

\* get_strategy_data computing again on the stored history gives the columns
\* it gave before, and the second run of calculate_margin_strategy writes
\* the columns the frame already holds
C15_RerunStep ==
  /\ (spc = "loaded" /\ spc' = "cached" /\ Strategy_1x_Daily # <<>>) =>
       derived' = derived
  /\ (SecondRun /\ pc' = "done") => df' = df

Returned(th, c, v, l) ==
  /\ _cache' = c
  /\ latest' = l
  /\ ret' = [ret EXCEPT ![th] = v]
  /\ entry' = [entry EXCEPT ![th] = NoEntry]
  /\ call' = [call EXCEPT ![th] = NoCall]
  /\ _lock' = 0
  /\ cpc' = [cpc EXCEPT ![th] = "idle"]

\* the thread starts the call c
Begin(th, c) ==
  /\ call' = [call EXCEPT ![th] = c]
  /\ cpc' = [cpc EXCEPT ![th] = "acquire"]

GetCall(k) == [op |-> "get", key |-> k, value |-> None, ttl |-> 0]
SetCall(k, v, t) == [op |-> "set", key |-> k, value |-> v, ttl |-> t]
ClearCall == [op |-> "clear", key |-> "strategy_data", value |-> None, ttl |-> 0]

\* a thread that serves no request calls get, set or clear
Call(th) ==
  /\ rpc[th] = "idle"
  /\ cpc[th] = "idle"
  /\ \/ \E k \in Keys : Begin(th, GetCall(k))
     \/ \E k \in Keys, v \in CacheValues, t \in TtlSet : Begin(th, SetCall(k, v, t))
     \/ Begin(th, ClearCall)
  /\ UNCHANGED <<_cache, _lock, now, entry, ret, latest>>
  /\ UNCHANGED <<margin_vars, strategy_vars, request_vars>>

\* Acquire, entering the block whether or not another thread is inside
Acquire_WithoutLock(th) ==
  /\ cpc[th] = "acquire"
  /\ _lock' = th
  /\ cpc' = [cpc EXCEPT ![th] = "body"]
  /\ UNCHANGED <<_cache, now, call, entry, ret, latest>>
  /\ UNCHANGED <<margin_vars, strategy_vars, request_vars>>

\* data_cache.py:16, 29, 35  with _lock: the thread waits until the lock is free
Acquire(th) ==
  /\ cpc[th] = "acquire"
  /\ _lock = 0
  /\ _lock' = th
  /\ cpc' = [cpc EXCEPT ![th] = "body"]
  /\ UNCHANGED <<_cache, now, call, entry, ret, latest>>
  /\ UNCHANGED <<margin_vars, strategy_vars, request_vars>>

\* data_cache.py:17-19  entry = _cache.get(key); a miss returns None
GetLookup(th) ==
  /\ cpc[th] = "body"
  /\ call[th].op = "get"
  /\ LET e == _cache[call[th].key]
     IN  IF e = NoEntry
         THEN Returned(th, _cache, None, latest)
         ELSE /\ entry' = [entry EXCEPT ![th] = e]
              /\ cpc' = [cpc EXCEPT ![th] = "expiry"]
              /\ UNCHANGED <<_cache, _lock, call, ret, latest>>
  /\ UNCHANGED now
  /\ UNCHANGED <<margin_vars, strategy_vars, request_vars>>

\* GetExpiry, treating an entry as expired from its expiry time on
GetExpiry_ExpiresAtDeadline(th) ==
  /\ cpc[th] = "expiry"
  /\ LET value == entry[th][1]
         expiry == entry[th][2]
         k == call[th].key
     IN  IF now >= expiry
         THEN Returned(th, [_cache EXCEPT ![k] = NoEntry], None, latest)
         ELSE Returned(th, _cache, value, latest)
  /\ UNCHANGED now
  /\ UNCHANGED <<margin_vars, strategy_vars, request_vars>>

\* data_cache.py:20-24  an entry past its expiry is deleted and None is
\* returned; otherwise the value is returned
GetExpiry(th) ==
  /\ cpc[th] = "expiry"
  /\ LET value == entry[th][1]
         expiry == entry[th][2]
         k == call[th].key
     IN  IF now > expiry
         THEN Returned(th, [_cache EXCEPT ![k] = NoEntry], None, latest)
         ELSE Returned(th, _cache, value, latest)
  /\ UNCHANGED now
  /\ UNCHANGED <<margin_vars, strategy_vars, request_vars>>

\* data_cache.py:27-30  _cache[key] = (value, time.monotonic() + ttl)
SetStore(th) ==
  /\ cpc[th] = "body"
  /\ call[th].op = "set"
  /\ LET k == call[th].key
         e == <<call[th].value, now + call[th].ttl>>
     IN  Returned(th, [_cache EXCEPT ![k] = e], None, [latest EXCEPT ![k] = e])
  /\ UNCHANGED now
  /\ UNCHANGED <<margin_vars, strategy_vars, request_vars>>

\* data_cache.py:33-36  _cache.clear()
ClearAll(th) ==
  /\ cpc[th] = "body"
  /\ call[th].op = "clear"
  /\ Returned(th, [k \in Keys |-> NoEntry], None, [k \in Keys |-> NoEntry])
  /\ UNCHANGED now
  /\ UNCHANGED <<margin_vars, strategy_vars, request_vars>>

\* time.monotonic() moves on
ClockAdvances ==
  /\ now < MaxTicks * Tick
  /\ now' = now + Tick
  /\ UNCHANGED <<_cache, _lock, call, cpc, entry, ret, latest>>
  /\ UNCHANGED <<margin_vars, strategy_vars, request_vars>>

CacheStep(th) ==
  \/ Acquire(th)
  \/ GetLookup(th)
  \/ GetExpiry(th)
  \/ SetStore(th)
  \/ ClearAll(th)

NextCache ==
  \/ \E th \in Threads : Call(th)
  \/ \E th \in Threads : CacheStep(th)
  \/ ClockAdvances

SpecCache == Init /\ [][NextCache]_vars

(***************************************************************************)
(* Properties of data_cache.py.                                            *)
(***************************************************************************)
\* the thread is inside a 'with _lock' block
InBlock(th) == cpc[th] \in {"body", "expiry"}

\* the step about to be taken ends the thread's call
Returns(th) == InBlock(th) /\ cpc'[th] = "idle"

\* what a get of the key must return at this moment: the value of the latest
\* set that no clear has followed, unless the clock is past its expiry
Expected(k) ==
  IF latest[k] # NoEntry /\ now <= latest[k][2] THEN latest[k][1] ELSE None

C25_Atomic == \A th \in Threads : InBlock(th) => _lock = th

C25_CacheHoldsLatest ==
  \A k \in Keys :
    /\ _cache[k] # NoEntry => _cache[k] = latest[k]
    /\ _cache[k] = NoEntry => (latest[k] = NoEntry \/ now > latest[k][2])

C25_GetStep ==
  \A th \in Threads :
    (Returns(th) /\ call[th].op = "get")
      => /\ ret'[th] = Expected(call[th].key)
         /\ Expected(call[th].key) = None => _cache'[call[th].key] = NoEntry

C25_WriteStep ==
  _cache' # _cache => \E th \in Threads : _lock = th /\ Returns(th)

\* C25: under every interleaving of get, set and clear calls of the threads,
\* a get returns the value of the latest set of its key when no clear has
\* followed that set and the clock is not past the set time + ttl, and None
\* otherwise; a get that finds an expired entry removes it; and the calls
\* are atomic: a thread is inside get, set or clear only while it holds the
\* lock, and _cache changes only in the step of the thread holding it.
C25_CacheContract ==
  [](C25_Atomic /\ C25_CacheHoldsLatest) /\ [][C25_GetStep /\ C25_WriteStep]_vars

\* C25 witness: one thread's get has returned a value that was set, a later
\* get has found the entry expired and removed it, and now one thread is
\* inside a call while the other waits for the lock
C25_Witness ==
  \E a \in Threads : \E b \in Threads \ {a} : \E k \in Keys :
    /\ ret[a] \in CacheValues
    /\ _cache[k] = NoEntry
    /\ latest[k] # NoEntry /\ now > latest[k][2]
    /\ _lock = a /\ cpc[a] = "body"
    /\ cpc[b] = "acquire"

(***************************************************************************)
(* app.py : dashboard().  The request clears the cache and then runs the   *)
(* analyses one after the other; Analyses of them call get_strategy_data   *)
(* (analyze_strategy, analyze_lsc, analyze_lscda, analyze_lda and          *)
(* analyze_margin through get_merged_data).                                *)
(***************************************************************************)
\* the thread goes on to its next analysis, or the request is over
NextAnalysis(th, n) ==
  /\ analyses' = [analyses EXCEPT ![th] = n]
  /\ IF n < Analyses
     THEN /\ Begin(th, GetCall("strategy_data"))
          /\ rpc' = [rpc EXCEPT ![th] = "lookup"]
     ELSE /\ rpc' = [rpc EXCEPT ![th] = "done"]
          /\ UNCHANGED <<call, cpc>>

\* app.py:30-32  a request arrives: data_cache.clear()
StartRequest(th) ==
  /\ rpc[th] = "idle" /\ cpc[th] = "idle"
  /\ Begin(th, ClearCall)
  /\ rpc' = [rpc EXCEPT ![th] = "clear"]
  /\ UNCHANGED <<_cache, _lock, now, entry, ret, latest>>
  /\ UNCHANGED <<analyses, used, computed, next_value>>
  /\ UNCHANGED <<margin_vars, strategy_vars>>

\* app.py:35, analyzer.py:74  the first analysis calls get_strategy_data,
\* which asks the cache
FirstAnalysis(th) ==
  /\ rpc[th] = "clear" /\ cpc[th] = "idle"
  /\ NextAnalysis(th, 0)
  /\ UNCHANGED <<_cache, _lock, now, entry, ret, latest>>
  /\ UNCHANGED <<used, computed, next_value>>
  /\ UNCHANGED <<margin_vars, strategy_vars>>

\* analyzer.py:75-76  the cached frame is returned, and the analysis uses it
UseCached(th) ==
  /\ rpc[th] = "lookup" /\ cpc[th] = "idle"
  /\ ret[th] # None
  /\ used' = [used EXCEPT ![th] = @ \cup {ret[th]}]
  /\ NextAnalysis(th, analyses[th] + 1)
  /\ UNCHANGED <<_cache, _lock, now, entry, ret, latest>>
  /\ UNCHANGED <<computed, next_value>>
  /\ UNCHANGED <<margin_vars, strategy_vars>>

\* analyzer.py:78-190  nothing cached: the frame is computed from the stored
\* history as it is now, and handed to data_cache.set
Compute(th) ==
  /\ rpc[th] = "lookup" /\ cpc[th] = "idle"
  /\ ret[th] = None
  /\ computed' = [computed EXCEPT ![th] = @ + 1]
  /\ used' = [used EXCEPT ![th] = @ \cup {next_value}]
  /\ next_value' = next_value + 1
  /\ Begin(th, SetCall("strategy_data", next_value, _DEFAULT_TTL))
  /\ rpc' = [rpc EXCEPT ![th] = "store"]
  /\ UNCHANGED <<_cache, _lock, now, entry, ret, latest>>
  /\ UNCHANGED analyses
  /\ UNCHANGED <<margin_vars, strategy_vars>>

\* analyzer.py:191  get_strategy_data returns the frame it has computed
UseComputed(th) ==
  /\ rpc[th] = "store" /\ cpc[th] = "idle"
  /\ NextAnalysis(th, analyses[th] + 1)
  /\ UNCHANGED <<_cache, _lock, now, entry, ret, latest>>
  /\ UNCHANGED <<used, computed, next_value>>
  /\ UNCHANGED <<margin_vars, strategy_vars>>

NextDashboard ==
  \/ \E th \in Threads : StartRequest(th)
  \/ \E th \in Threads : FirstAnalysis(th)
  \/ \E th \in Threads : UseCached(th)
  \/ \E th \in Threads : Compute(th)
  \/ \E th \in Threads : UseComputed(th)
  \/ \E th \in Threads : CacheStep(th)
  \/ ClockAdvances

SpecDashboard == Init /\ [][NextDashboard]_vars

(***************************************************************************)
(* Properties of a dashboard request.                                      *)
(***************************************************************************)
\* C26: in a finished dashboard request every analysis has used one and the
\* same strategy-data value, and that value was computed exactly once
\* during the request, whatever other requests and the clock did meanwhile.
C26_OneValuePerRequest ==
  \A th \in Threads :
    rpc[th] = "done" => (Cardinality(used[th]) = 1 /\ computed[th] = 1)

=============================================================================
